---------------------------- MODULE Spec2Model ----------------------------
(***************************************************************************)
(* Binary prefix tree (bit-trie) of camelinx/prefix_tree: the generic      *)
(* Tree[T] of src/tree.go (lines 1-601) over the Node[T] of src/node.go    *)
(* (lines 82-176).  The heap of nodes is a function from node identifiers  *)
(* to node records; a pointer is a node identifier, the nil pointer is NIL.*)
(* Keys and masks are sequences of bytes (0..255), indexed from 1 here and *)
(* from 0 in the source.                                                   *)
(***************************************************************************)
EXTENDS Integers, Sequences, FiniteSets, TLC

VARIABLES
    nodes,      \* heap: node identifier -> [left, right, terminal, value]
    numNodes,   \* Tree.numNodes, the live counter
    stored,     \* ghost: bit prefix -> value of the inserts that returned Ok
    last,       \* ghost: the last call, its arguments, results and pre-state
    handlers,   \* Tree.rlockFn, runlockFn, wlockFn, unlockFn: TRUE for set
    pc,         \* concurrent calls: goroutine -> position in its call
    frame,      \* concurrent calls: goroutine -> the call and its locals
    rwlock,     \* the reader-writer lock behind the hooks
    access,     \* ghost: the access to the tree made by the last step
    tree0,      \* ghost: the tree before the concurrent calls
    stack,      \* a NodeStack on its own
    stackLast   \* ghost: the last operation on stack and what it returned

\* The state of the sequential calls, of the concurrent calls, of the stack.
treeVars == <<nodes, numNodes, stored, last>>
concVars == <<handlers, pc, frame, rwlock, access, tree0>>
stackVars == <<stack, stackLast>>

vars == <<nodes, numNodes, stored, last, handlers, pc, frame, rwlock, access,
          tree0, stack, stackLast>>

---------------------------------------------------------------------------
(* Bounds and input sets *)

\* Insert is not offered once this many keys are stored.
MaxLive == 3

\* The values (type parameter T is instantiated by small integers).
Values == {1, 2}

\* (key, mask) pairs offered to Insert, Delete and Search.
InsertInputs ==
    { <<  <<128>>,      <<128>>      >>,   \* prefix 1
      <<  <<192>>,      <<192>>      >>,   \* prefix 11
      <<  <<128>>,      <<192>>      >>,   \* prefix 10
      <<  <<160>>,      <<192>>      >>,   \* prefix 10, other unmasked bits
      <<  <<0>>,        <<128>>      >>,   \* prefix 0
      <<  <<128, 128>>, <<255, 255>> >>,   \* 16-bit prefix 10000000 10000000
      <<  <<>>,         <<>>         >>,   \* empty key and mask
      <<  <<128>>,      <<255, 0>>   >>,   \* lengths differ
      <<  <<128>>,      <<64>>       >>,   \* first mask bit is 0
      <<  <<192>>,      <<160>>      >> }  \* non-contiguous mask 1010 0000

\* (key, mask) pairs offered to Delete and Search only: the prefix of an
\* interior node of the chain to the 16-bit prefix (a one-byte key with a
\* full mask), and a prefix below a leaf.
ProbeInputs ==
    { <<  <<128>>,      <<255>>      >>,   \* prefix 10000000
      <<  <<192>>,      <<224>>      >> }  \* prefix 110

Inputs == InsertInputs \cup ProbeInputs

\* A walker function is [isNil, failAt, err]; NoWalkerFn is the nil one.
NoWalkerFn == [isNil |-> TRUE, failAt |-> 0, err |-> "nil"]

\* The walker functions tried: none, one that never fails, one that fails
\* at its first call and one that fails at its second call.
WalkerFns ==
    {NoWalkerFn,
     [isNil |-> FALSE, failAt |-> 0, err |-> "nil"],
     [isNil |-> FALSE, failAt |-> 1, err |-> "E1"],
     [isNil |-> FALSE, failAt |-> 2, err |-> "E2"]}

---------------------------------------------------------------------------
(* Program constants *)

NIL == 0            \* the nil pointer
root == 1           \* Tree.root.Node, allocated by NewTree
zero == 0           \* the zero value of T (var zero T)
msbByteVal == 128   \* 1000 0000

\* match == match&b, for match a single bit
BitSet(match, b) == (b \div match) % 2 = 1

---------------------------------------------------------------------------
(* Node *)

\* NewNode: a node with no children, not terminal, zero value
NewNode == [left |-> NIL, right |-> NIL, terminal |-> FALSE, value |-> zero]

\* The address of a new allocation: any identifier not in use.  The model
\* takes 2*node + bit for the node about to be linked below `node` on the
\* side `bit` when that is not in use, else the smallest one not in use.
FreshId(nd, node, bit) ==
    IF 2 * node + bit \notin DOMAIN nd
    THEN 2 * node + bit
    ELSE CHOOSE i \in 1..(Cardinality(DOMAIN nd) + 1) :
             /\ i \notin DOMAIN nd
             /\ \A j \in 1..(i - 1) : j \in DOMAIN nd

\* Faulty variant of IsLeaf: only the left link is looked at.
IsLeafLeftOnly(nd, n) == nd[n].left = NIL

IsLeaf(nd, n) == nd[n].right = NIL /\ nd[n].left = NIL

IsTerminal(nd, n) == nd[n].terminal

\* Faulty variant of UnmarkTerminal: the flag is left set.
UnmarkTerminalNoop(nd, n) == nd

MarkTerminal(nd, n) == [nd EXCEPT ![n].terminal = TRUE]

UnmarkTerminal(nd, n) == [nd EXCEPT ![n].terminal = FALSE]

\* Faulty variant of SaveAndMarkTerminal: the value is not saved.
MarkWithoutSaving(nd, n, value) == [nd EXCEPT ![n].terminal = TRUE]

SaveAndMarkTerminal(nd, n, value) ==
    MarkTerminal([nd EXCEPT ![n].value = value], n)

---------------------------------------------------------------------------
(* Tree: a tree value is [nodes |-> heap, numNodes |-> counter] *)

NewTree == [nodes |-> (root :> NewNode), numNodes |-> 0]

IsRoot(n) == n = root

IsEmpty(t) == t.numNodes = 0

GetNodesCount(t) == t.numNodes

incrNumNodes(t) == [t EXCEPT !.numNodes = t.numNodes + 1]

\* Faulty variant of decrNumNodes: the guard is off by one.
decrNumNodesAboveOne(t) ==
    IF t.numNodes > 1 THEN [t EXCEPT !.numNodes = t.numNodes - 1] ELSE t

decrNumNodes(t) ==
    IF t.numNodes > 0 THEN [t EXCEPT !.numNodes = t.numNodes - 1] ELSE t

---------------------------------------------------------------------------
(* The lock hooks.  The tree of the sequential calls is one built by       *)
(* NewTreeWithLockHandlers with the four hooks set; a call of a hook is an *)
(* event of the trace of the call that made it.                            *)

\* The hooks of the tree: TRUE for a hook that is set.
LockHandlers == [rlockFn |-> TRUE, runlockFn |-> TRUE,
                 wlockFn |-> TRUE, unlockFn |-> TRUE]

\* The hooks of a tree built by NewTree: none is set.
NoLockHandlers == [rlockFn |-> FALSE, runlockFn |-> FALSE,
                   wlockFn |-> FALSE, unlockFn |-> FALSE]

HookEvent(name) == [ev |-> name, node |-> NIL, value |-> zero]

rlock(events) ==
    IF LockHandlers.rlockFn THEN Append(events, HookEvent("rlock")) ELSE events

runlock(events) ==
    IF LockHandlers.runlockFn
    THEN Append(events, HookEvent("runlock")) ELSE events

wlock(events) ==
    IF LockHandlers.wlockFn THEN Append(events, HookEvent("wlock")) ELSE events

\* Faulty variant of unlock: the hook is not called.
unlockSkipped(events) == events

unlock(events) ==
    IF LockHandlers.unlockFn
    THEN Append(events, HookEvent("unlock")) ELSE events

---------------------------------------------------------------------------
(* NodeStack: [nodes |-> sequence of node identifiers], top at the end *)

NewNodeStack == [nodes |-> <<>>]

Push(ns, node) == [ns EXCEPT !.nodes = Append(ns.nodes, node)]

\* Faulty variant of Pop: the oldest node is taken.
PopOldest(ns) ==
    IF Len(ns.nodes) = 0
    THEN [ns |-> ns, node |-> NIL]
    ELSE [ns   |-> [ns EXCEPT !.nodes = Tail(ns.nodes)],
          node |-> Head(ns.nodes)]

\* Pop: [ns |-> the stack afterwards, node |-> the popped node or nil]
Pop(ns) ==
    IF Len(ns.nodes) = 0
    THEN [ns |-> ns, node |-> NIL]
    ELSE [ns   |-> [ns EXCEPT !.nodes = SubSeq(ns.nodes, 1, Len(ns.nodes) - 1)],
          node |-> ns.nodes[Len(ns.nodes)]]

Peek(ns) == IF Len(ns.nodes) = 0 THEN NIL ELSE ns.nodes[Len(ns.nodes)]

StackIsEmpty(ns) == Len(ns.nodes) = 0

Size(ns) == Len(ns.nodes)

\* An optional *NodeStack argument: absent (nil) or a stack.
NoStack == [isNil |-> TRUE, ns |-> NewNodeStack]
SomeStack(ns) == [isNil |-> FALSE, ns |-> ns]

---------------------------------------------------------------------------
(* Tree.Insert *)

\* The first loop of Insert: follow existing children while the mask bit
\* is set.  Result: the loop's variables at its exit.
RECURSIVE InsertDescend(_, _, _, _, _, _, _)
InsertDescend(nd, key, mask, node, next, match, maskIdx) ==
    IF ~BitSet(match, mask[maskIdx + 1])
    THEN [node |-> node, next |-> next, match |-> match, maskIdx |-> maskIdx]
    ELSE LET nx == IF BitSet(match, key[maskIdx + 1])
                   THEN nd[node].right ELSE nd[node].left
         IN  IF nx = NIL
             THEN [node |-> node, next |-> NIL, match |-> match,
                   maskIdx |-> maskIdx]
             ELSE IF match = 1
                  THEN IF Len(key) = maskIdx + 1
                       THEN [node |-> nx, next |-> nx, match |-> match,
                             maskIdx |-> maskIdx + 1]
                       ELSE InsertDescend(nd, key, mask, nx, nx, msbByteVal,
                                          maskIdx + 1)
                  ELSE InsertDescend(nd, key, mask, nx, nx, match \div 2,
                                     maskIdx)

\* Faulty variant of InsertCreate: the mask does not stop the loop, a node
\* is made for every remaining bit of the key.
RECURSIVE InsertCreateWholeKey(_, _, _, _, _, _)
InsertCreateWholeKey(nd, key, mask, node, match, maskIdx) ==
    LET bit == IF BitSet(match, key[maskIdx + 1]) THEN 1 ELSE 0
        nx  == FreshId(nd, node, bit)
        nd1 == nd @@ (nx :> NewNode)
        nd2 == IF bit = 1
               THEN [nd1 EXCEPT ![node].right = nx]
               ELSE [nd1 EXCEPT ![node].left = nx]
    IN  IF match = 1
        THEN IF Len(key) = maskIdx + 1
             THEN [nodes |-> nd2, node |-> nx]
             ELSE InsertCreateWholeKey(nd2, key, mask, nx, msbByteVal,
                                       maskIdx + 1)
        ELSE InsertCreateWholeKey(nd2, key, mask, nx, match \div 2, maskIdx)

\* The second loop of Insert: one new node per remaining masked bit.
\* Result: the heap and the last node created.
RECURSIVE InsertCreate(_, _, _, _, _, _)
InsertCreate(nd, key, mask, node, match, maskIdx) ==
    IF ~BitSet(match, mask[maskIdx + 1])
    THEN [nodes |-> nd, node |-> node]
    ELSE LET bit == IF BitSet(match, key[maskIdx + 1]) THEN 1 ELSE 0
             nx  == FreshId(nd, node, bit)
             nd1 == nd @@ (nx :> NewNode)
             nd2 == IF bit = 1
                    THEN [nd1 EXCEPT ![node].right = nx]
                    ELSE [nd1 EXCEPT ![node].left = nx]
         IN  IF match = 1
             THEN IF Len(key) = maskIdx + 1
                  THEN [nodes |-> nd2, node |-> nx]
                  ELSE InsertCreate(nd2, key, mask, nx, msbByteVal,
                                    maskIdx + 1)
             ELSE InsertCreate(nd2, key, mask, nx, match \div 2, maskIdx)

\* Faulty variant of InsertExisting: no duplicate detection.
InsertExistingNoDup(t, node, value) ==
    IF IsRoot(node)
    THEN [t |-> t, res |-> "Error", err |-> "ErrInsertFailed"]
    ELSE [t   |-> incrNumNodes(
                     [t EXCEPT !.nodes =
                         SaveAndMarkTerminal(t.nodes, node, value)]),
          res |-> "Ok", err |-> "nil"]

\* Faulty variant of InsertExisting: a duplicate insert overwrites the value.
InsertExistingOverwrite(t, node, value) ==
    IF IsRoot(node)
    THEN [t |-> t, res |-> "Error", err |-> "ErrInsertFailed"]
    ELSE IF IsTerminal(t.nodes, node)
    THEN [t   |-> [t EXCEPT !.nodes = SaveAndMarkTerminal(t.nodes, node, value)],
          res |-> "Dup", err |-> "nil"]
    ELSE [t   |-> incrNumNodes(
                     [t EXCEPT !.nodes =
                         SaveAndMarkTerminal(t.nodes, node, value)]),
          res |-> "Ok", err |-> "nil"]

\* Insert found an existing node for the whole key/mask: Dup when it is
\* terminal, else it becomes terminal with the value.  [t, res, err]
InsertExisting(t, node, value) ==
    IF IsRoot(node)
    THEN [t |-> t, res |-> "Error", err |-> "ErrInsertFailed"]
    ELSE IF IsTerminal(t.nodes, node)
    THEN [t |-> t, res |-> "Dup", err |-> "nil"]
    ELSE [t   |-> incrNumNodes(
                     [t EXCEPT !.nodes =
                         SaveAndMarkTerminal(t.nodes, node, value)]),
          res |-> "Ok", err |-> "nil"]

\* The body of Insert between wlock and unlock.  [t, res, err]
InsertLocked(t, key, mask, value) ==
    LET d == InsertDescend(t.nodes, key, mask, root, root, msbByteVal, 0)
    IN  IF d.next # NIL
        THEN InsertExisting(t, d.node, value)
        ELSE IF Len(key) = d.maskIdx
        THEN [t |-> t, res |-> "Error", err |-> "ErrInsertFailed"]
        ELSE LET c == InsertCreate(t.nodes, key, mask, d.node, d.match,
                                   d.maskIdx)
             IN  [t   |-> incrNumNodes(
                             [t EXCEPT !.nodes =
                                 SaveAndMarkTerminal(c.nodes, c.node, value)]),
                  res |-> "Ok", err |-> "nil"]

\* Faulty variant of Insert: the lengths of key and mask are not compared.
InsertNoLenCheck(t, key, mask, value) ==
    IF Len(key) <= 0
    THEN [t |-> t, res |-> "Error", err |-> "invalid key length"]
    ELSE IF ~BitSet(msbByteVal, mask[1])
    THEN [t |-> t, res |-> "Error", err |-> "ErrInvalidKeyMask"]
    ELSE InsertLocked(t, key, mask, value)

\* Faulty variant of Insert: neither the first mask bit nor the root is
\* checked, so a mask that starts with 0 stores the value at the root.
InsertMarksRoot(t, key, mask, value) ==
    IF Len(key) # Len(mask)
    THEN [t |-> t, res |-> "Error", err |-> "ErrInvalidKeyMask"]
    ELSE IF Len(key) <= 0
    THEN [t |-> t, res |-> "Error", err |-> "invalid key length"]
    ELSE IF ~BitSet(msbByteVal, mask[1])
    THEN IF IsTerminal(t.nodes, root)
         THEN [t |-> t, res |-> "Dup", err |-> "nil"]
         ELSE [t   |-> incrNumNodes(
                          [t EXCEPT !.nodes =
                              SaveAndMarkTerminal(t.nodes, root, value)]),
               res |-> "Ok", err |-> "nil"]
    ELSE InsertLocked(t, key, mask, value)

\* Insert(key, mask, value): [t |-> tree afterwards, res, err]
Insert(t, key, mask, value) ==
    IF Len(key) # Len(mask)
    THEN [t |-> t, res |-> "Error", err |-> "ErrInvalidKeyMask"]
    ELSE IF Len(key) <= 0
    THEN [t |-> t, res |-> "Error", err |-> "invalid key length"]
    ELSE IF ~BitSet(msbByteVal, mask[1])
    THEN [t |-> t, res |-> "Error", err |-> "ErrInvalidKeyMask"]
    ELSE InsertLocked(t, key, mask, value)

\* The hook calls of Insert(key, mask, value): none on the returns before
\* wlock, then wlock and the deferred unlock.
InsertHooks(key, mask) ==
    IF Len(key) # Len(mask)
    THEN <<>>
    ELSE IF Len(key) <= 0
    THEN <<>>
    ELSE IF ~BitSet(msbByteVal, mask[1])
    THEN <<>>
    ELSE unlock(wlock(<<>>))

---------------------------------------------------------------------------
(* Tree.find *)

\* Faulty variant of FindDescend: the descent stops at the first terminal
\* node whatever the match type, and reports Match.
RECURSIVE FindDescendAnyType(_, _, _, _, _, _, _, _, _)
FindDescendAnyType(nd, key, mask, mType, node, ret, match, maskIdx, nodeAncestors) ==
    IF ~(node # NIL /\ BitSet(match, mask[maskIdx + 1]))
    THEN [node |-> node, ret |-> ret, nodeAncestors |-> nodeAncestors]
    ELSE IF IsTerminal(nd, node)
    THEN [node |-> node, ret |-> ret, nodeAncestors |-> nodeAncestors]
    ELSE
    LET st == IF ~nodeAncestors.isNil
              THEN SomeStack(Push(nodeAncestors.ns, node))
              ELSE nodeAncestors
        nx == IF BitSet(match, key[maskIdx + 1])
              THEN nd[node].right ELSE nd[node].left
    IN  IF match = 1
        THEN IF Len(key) = maskIdx + 1
             THEN [node |-> nx, ret |-> ret, nodeAncestors |-> st]
             ELSE FindDescendAnyType(nd, key, mask, mType, nx, ret,
                                     msbByteVal, maskIdx + 1, st)
        ELSE FindDescendAnyType(nd, key, mask, mType, nx, ret,
                                match \div 2, maskIdx, st)

\* Faulty variant of FindDescend: a terminal node on the way never ends the
\* descent, so a Partial search goes on to the end of the mask.
RECURSIVE FindDescendNoPartial(_, _, _, _, _, _, _, _, _)
FindDescendNoPartial(nd, key, mask, mType, node, ret, match, maskIdx, nodeAncestors) ==
    IF ~(node # NIL /\ BitSet(match, mask[maskIdx + 1]))
    THEN [node |-> node, ret |-> ret, nodeAncestors |-> nodeAncestors]
    ELSE
    LET st == IF ~nodeAncestors.isNil
              THEN SomeStack(Push(nodeAncestors.ns, node))
              ELSE nodeAncestors
        nx == IF BitSet(match, key[maskIdx + 1])
              THEN nd[node].right ELSE nd[node].left
    IN  IF match = 1
        THEN IF Len(key) = maskIdx + 1
             THEN [node |-> nx, ret |-> ret, nodeAncestors |-> st]
             ELSE FindDescendNoPartial(nd, key, mask, mType, nx, ret,
                                       msbByteVal, maskIdx + 1, st)
        ELSE FindDescendNoPartial(nd, key, mask, mType, nx, ret,
                                  match \div 2, maskIdx, st)

\* Faulty variant of FindDescend: a 0 bit of the mask does not end the loop,
\* the bit is skipped and the loop goes on with the next one.
RECURSIVE FindDescendSkipsZeroBits(_, _, _, _, _, _, _, _, _)
FindDescendSkipsZeroBits(nd, key, mask, mType, node, ret, match, maskIdx, nodeAncestors) ==
    IF node = NIL
    THEN [node |-> node, ret |-> ret, nodeAncestors |-> nodeAncestors]
    ELSE IF ~BitSet(match, mask[maskIdx + 1])
    THEN IF match = 1
         THEN IF Len(key) = maskIdx + 1
              THEN [node |-> node, ret |-> ret,
                    nodeAncestors |-> nodeAncestors]
              ELSE FindDescendSkipsZeroBits(nd, key, mask, mType, node, ret,
                                            msbByteVal, maskIdx + 1,
                                            nodeAncestors)
         ELSE FindDescendSkipsZeroBits(nd, key, mask, mType, node, ret,
                                       match \div 2, maskIdx, nodeAncestors)
    ELSE IF mType = "Partial" /\ IsTerminal(nd, node)
    THEN [node |-> node, ret |-> "PartialMatch",
          nodeAncestors |-> nodeAncestors]
    ELSE
    LET st == IF ~nodeAncestors.isNil
              THEN SomeStack(Push(nodeAncestors.ns, node))
              ELSE nodeAncestors
        nx == IF BitSet(match, key[maskIdx + 1])
              THEN nd[node].right ELSE nd[node].left
    IN  IF match = 1
        THEN IF Len(key) = maskIdx + 1
             THEN [node |-> nx, ret |-> ret, nodeAncestors |-> st]
             ELSE FindDescendSkipsZeroBits(nd, key, mask, mType, nx, ret,
                                           msbByteVal, maskIdx + 1, st)
        ELSE FindDescendSkipsZeroBits(nd, key, mask, mType, nx, ret,
                                      match \div 2, maskIdx, st)

\* The loop of find.  Result: the node reached (possibly nil), the result
\* code and the ancestor stack.
RECURSIVE FindDescend(_, _, _, _, _, _, _, _, _)
FindDescend(nd, key, mask, mType, node, ret, match, maskIdx, nodeAncestors) ==
    IF ~(node # NIL /\ BitSet(match, mask[maskIdx + 1]))
    THEN [node |-> node, ret |-> ret, nodeAncestors |-> nodeAncestors]
    ELSE IF mType = "Partial" /\ IsTerminal(nd, node)
    THEN [node |-> node, ret |-> "PartialMatch",
          nodeAncestors |-> nodeAncestors]
    ELSE
    LET st == IF ~nodeAncestors.isNil
              THEN SomeStack(Push(nodeAncestors.ns, node))
              ELSE nodeAncestors
        nx == IF BitSet(match, key[maskIdx + 1])
              THEN nd[node].right ELSE nd[node].left
    IN  IF match = 1
        THEN IF Len(key) = maskIdx + 1
             THEN [node |-> nx, ret |-> ret, nodeAncestors |-> st]
             ELSE FindDescend(nd, key, mask, mType, nx, ret, msbByteVal,
                              maskIdx + 1, st)
        ELSE FindDescend(nd, key, mask, mType, nx, ret, match \div 2,
                         maskIdx, st)

\* Faulty variant of find: the node the loop ends on is returned whether it
\* is terminal or not.
findAnyNode(t, key, mask, mType, nodeAncestors) ==
    IF IsEmpty(t)
    THEN [node |-> NIL, res |-> "NoMatch", err |-> "ErrKeyNotFound",
          nodeAncestors |-> nodeAncestors]
    ELSE IF Len(key) <= 0
    THEN [node |-> NIL, res |-> "Error", err |-> "invalid key length",
          nodeAncestors |-> nodeAncestors]
    ELSE IF ~BitSet(msbByteVal, mask[1])
    THEN [node |-> NIL, res |-> "Error", err |-> "ErrInvalidKeyMask",
          nodeAncestors |-> nodeAncestors]
    ELSE
    LET f == FindDescend(t.nodes, key, mask, mType, root, "Match",
                         msbByteVal, 0, nodeAncestors)
    IN  IF f.node # NIL
        THEN [node |-> f.node, res |-> f.ret, err |-> "nil",
              nodeAncestors |-> f.nodeAncestors]
        ELSE [node |-> NIL, res |-> "NoMatch", err |-> "ErrKeyNotFound",
              nodeAncestors |-> f.nodeAncestors]

\* find(key, mask, mType, nodeAncestors):
\* [node, res, err, nodeAncestors |-> the stack as find leaves it]
find(t, key, mask, mType, nodeAncestors) ==
    IF IsEmpty(t)
    THEN [node |-> NIL, res |-> "NoMatch", err |-> "ErrKeyNotFound",
          nodeAncestors |-> nodeAncestors]
    ELSE IF Len(key) <= 0
    THEN [node |-> NIL, res |-> "Error", err |-> "invalid key length",
          nodeAncestors |-> nodeAncestors]
    ELSE IF ~BitSet(msbByteVal, mask[1])
    THEN [node |-> NIL, res |-> "Error", err |-> "ErrInvalidKeyMask",
          nodeAncestors |-> nodeAncestors]
    ELSE
    LET f == FindDescend(t.nodes, key, mask, mType, root, "Match",
                         msbByteVal, 0, nodeAncestors)
    IN  IF f.node # NIL /\ IsTerminal(t.nodes, f.node)
        THEN [node |-> f.node, res |-> f.ret, err |-> "nil",
              nodeAncestors |-> f.nodeAncestors]
        ELSE [node |-> NIL, res |-> "NoMatch", err |-> "ErrKeyNotFound",
              nodeAncestors |-> f.nodeAncestors]

---------------------------------------------------------------------------
(* Tree.Delete *)

\* Faulty variant of Prune: a terminal ancestor does not stop the loop.
RECURSIVE PruneThroughTerminal(_, _, _)
PruneThroughTerminal(nd, node, nodeAncestors) ==
    IF StackIsEmpty(nodeAncestors)
    THEN nd
    ELSE LET p      == Pop(nodeAncestors)
             parent == p.node
             nd1    == IF node = nd[parent].right
                       THEN [nd EXCEPT ![parent].right = NIL]
                       ELSE [nd EXCEPT ![parent].left = NIL]
         IN  IF ~IsLeaf(nd1, parent) \/ IsRoot(parent)
             THEN nd1
             ELSE PruneThroughTerminal(nd1, parent, p.ns)

\* Faulty variant of Prune: only the matched node is unlinked.
PruneOneLevel(nd, node, nodeAncestors) ==
    IF StackIsEmpty(nodeAncestors)
    THEN nd
    ELSE LET parent == Pop(nodeAncestors).node
         IN  IF node = nd[parent].right
             THEN [nd EXCEPT ![parent].right = NIL]
             ELSE [nd EXCEPT ![parent].left = NIL]

\* Faulty variant of Prune: an ancestor that still has a child does not stop
\* the loop.
RECURSIVE PruneThroughBranch(_, _, _)
PruneThroughBranch(nd, node, nodeAncestors) ==
    IF StackIsEmpty(nodeAncestors)
    THEN nd
    ELSE LET p      == Pop(nodeAncestors)
             parent == p.node
             nd1    == IF node = nd[parent].right
                       THEN [nd EXCEPT ![parent].right = NIL]
                       ELSE [nd EXCEPT ![parent].left = NIL]
         IN  IF IsTerminal(nd1, parent) \/ IsRoot(parent)
             THEN nd1
             ELSE PruneThroughBranch(nd1, parent, p.ns)

\* The pruning loop of Delete: pop the parent, clear its link to `node`,
\* move up; stop at a node that is not a leaf, is terminal or is the root.
RECURSIVE Prune(_, _, _)
Prune(nd, node, nodeAncestors) ==
    IF StackIsEmpty(nodeAncestors)
    THEN nd
    ELSE LET p      == Pop(nodeAncestors)
             parent == p.node
             nd1    == IF node = nd[parent].right
                       THEN [nd EXCEPT ![parent].right = NIL]
                       ELSE [nd EXCEPT ![parent].left = NIL]
         IN  IF ~IsLeaf(nd1, parent) \/ IsTerminal(nd1, parent) \/ IsRoot(parent)
             THEN nd1
             ELSE Prune(nd1, parent, p.ns)

\* The nodes reachable from the nodes of S by left and right links.
RECURSIVE ReachableFrom(_, _)
ReachableFrom(nd, S) ==
    LET T == S \cup (({nd[n].left : n \in S} \cup {nd[n].right : n \in S})
                     \ {NIL})
    IN  IF T = S THEN S ELSE ReachableFrom(nd, T)

\* Garbage collection: a node no link leads to from the root is gone.
Collect(nd) == [n \in ReachableFrom(nd, {root}) |-> nd[n]]

\* Delete(key, mask): [t |-> tree afterwards, res, value, err]
Delete(t, key, mask) ==
    IF Len(key) # Len(mask)
    THEN [t |-> t, res |-> "Error", value |-> zero,
          err |-> "ErrInvalidKeyMask"]
    ELSE
    LET f == find(t, key, mask, "Exact", SomeStack(NewNodeStack))
    IN  IF f.err # "nil" \/ f.res # "Match"
        THEN [t |-> t, res |-> "Error", value |-> zero, err |-> f.err]
        ELSE IF f.node = NIL \/ ~IsTerminal(t.nodes, f.node) \/ IsRoot(f.node)
        THEN [t |-> t, res |-> "Error", value |-> zero,
              err |-> "ErrKeyNotFound"]
        ELSE IF ~IsLeaf(t.nodes, f.node)
        THEN [t     |-> decrNumNodes(
                           [t EXCEPT !.nodes = UnmarkTerminal(t.nodes, f.node)]),
              res   |-> "Match",
              value |-> t.nodes[f.node].value,
              err   |-> "nil"]
        ELSE [t     |-> decrNumNodes(
                           [t EXCEPT !.nodes =
                               Collect(Prune(t.nodes, f.node,
                                             f.nodeAncestors.ns))]),
              res   |-> "Match",
              value |-> t.nodes[f.node].value,
              err   |-> "nil"]

\* The hook calls of Delete(key, mask): none on the return before wlock,
\* then wlock and the deferred unlock.
DeleteHooks(key, mask) ==
    IF Len(key) # Len(mask) THEN <<>> ELSE unlock(wlock(<<>>))

---------------------------------------------------------------------------
(* Tree.Search, SearchExact, SearchPartial *)

\* Faulty variant of Search: a Partial search accepts Match only.
SearchPartialNeedsMatch(t, key, mask, mType) ==
    IF Len(key) # Len(mask)
    THEN [res |-> "Error", value |-> zero, err |-> "ErrInvalidKeyMask"]
    ELSE
    LET f == find(t, key, mask, mType, NoStack)
    IN  IF f.err # "nil"
        THEN [res |-> "Error", value |-> zero, err |-> f.err]
        ELSE IF f.res # "Match"
        THEN [res |-> "Error", value |-> zero, err |-> "ErrKeyNotFound"]
        ELSE [res |-> f.res, value |-> t.nodes[f.node].value, err |-> "nil"]

\* Search(key, mask, mType): [res, value, err]
Search(t, key, mask, mType) ==
    IF Len(key) # Len(mask)
    THEN [res |-> "Error", value |-> zero, err |-> "ErrInvalidKeyMask"]
    ELSE
    LET f == find(t, key, mask, mType, NoStack)
    IN  IF f.err # "nil"
        THEN [res |-> "Error", value |-> zero, err |-> f.err]
        ELSE IF mType = "Exact" /\ f.res # "Match"
        THEN [res |-> "Error", value |-> zero, err |-> f.err]
        ELSE IF mType = "Partial" /\ f.res # "Match" /\ f.res # "PartialMatch"
        THEN [res |-> "Error", value |-> zero, err |-> f.err]
        ELSE IF f.node = NIL \/ ~IsTerminal(t.nodes, f.node) \/ IsRoot(f.node)
        THEN [res |-> "Error", value |-> zero, err |-> "ErrKeyNotFound"]
        ELSE [res |-> f.res, value |-> t.nodes[f.node].value, err |-> "nil"]

SearchExact(t, key, mask) == Search(t, key, mask, "Exact")

SearchPartial(t, key, mask) == Search(t, key, mask, "Partial")

\* The hook calls of Search(key, mask, mType): none on the return before
\* rlock, then rlock and the deferred runlock.
SearchHooks(key, mask) ==
    IF Len(key) # Len(mask) THEN <<>> ELSE runlock(rlock(<<>>))

---------------------------------------------------------------------------
(* Tree.Walk *)
(* A walk leaves a trace of events: the calls of the lock hooks and the    *)
(* calls of walkerFn, each with the node it was called for.  A             *)
(* walkerFn is [isNil, failAt, err]: a nil function, or one that returns   *)
(* err from its failAt-th call and nil from every other call (failAt 0:    *)
(* from every call).                                                       *)

\* The calls of walkerFn in a trace.
WalkerCalls(events) == SelectSeq(events, LAMBDA e : e.ev = "walkerFn")

\* walkerFn(ctx, node.value): [events |-> the trace afterwards, err]
CallWalkerFn(nd, walkerFn, node, events) ==
    LET ev == Append(events, [ev |-> "walkerFn", node |-> node,
                              value |-> nd[node].value])
    IN  [events |-> ev,
         err    |-> IF Len(WalkerCalls(ev)) = walkerFn.failAt
                    THEN walkerFn.err ELSE "nil"]

RECURSIVE WalkLoop(_, _, _, _)
RECURSIVE WalkUnwind(_, _, _, _, _)

\* Faulty variant of WalkUnwind: a parent popped on the way up is not
\* reported.
RECURSIVE WalkUnwindSkipsParents(_, _, _, _, _)
WalkUnwindSkipsParents(nd, walkerFn, treeNodeStack, node, events) ==
    IF StackIsEmpty(treeNodeStack)
    THEN WalkLoop(nd, walkerFn, treeNodeStack, events)
    ELSE
    LET parent == Peek(treeNodeStack)
    IN  IF nd[parent].right # NIL /\ nd[parent].right # node
        THEN WalkLoop(nd, walkerFn, Push(treeNodeStack, nd[parent].right),
                      events)
        ELSE LET p == Pop(treeNodeStack)
             IN  WalkUnwindSkipsParents(nd, walkerFn, p.ns, p.node, events)

\* Faulty variant of WalkUnwind: the error of walkerFn is dropped.
RECURSIVE WalkUnwindIgnoresError(_, _, _, _, _)
WalkUnwindIgnoresError(nd, walkerFn, treeNodeStack, node, events) ==
    IF StackIsEmpty(treeNodeStack)
    THEN WalkLoop(nd, walkerFn, treeNodeStack, events)
    ELSE
    LET parent == Peek(treeNodeStack)
    IN  IF nd[parent].right # NIL /\ nd[parent].right # node
        THEN WalkLoop(nd, walkerFn, Push(treeNodeStack, nd[parent].right),
                      events)
        ELSE LET p == Pop(treeNodeStack)
             IN  IF ~IsRoot(p.node) /\ IsTerminal(nd, p.node)
                 THEN WalkUnwindIgnoresError(nd, walkerFn, p.ns, p.node,
                          CallWalkerFn(nd, walkerFn, p.node, events).events)
                 ELSE WalkUnwindIgnoresError(nd, walkerFn, p.ns, p.node,
                                             events)

\* Faulty variant of WalkUnwind: a terminal parent is reported when its
\* right child is pushed, before the nodes below that child.
RECURSIVE WalkUnwindReportsEarly(_, _, _, _, _)
WalkUnwindReportsEarly(nd, walkerFn, treeNodeStack, node, events) ==
    IF StackIsEmpty(treeNodeStack)
    THEN WalkLoop(nd, walkerFn, treeNodeStack, events)
    ELSE
    LET parent == Peek(treeNodeStack)
    IN  IF nd[parent].right # NIL /\ nd[parent].right # node
        THEN LET c == IF ~IsRoot(parent) /\ IsTerminal(nd, parent)
                      THEN CallWalkerFn(nd, walkerFn, parent, events)
                      ELSE [events |-> events, err |-> "nil"]
             IN  IF c.err # "nil"
                 THEN c
                 ELSE WalkLoop(nd, walkerFn,
                               Push(treeNodeStack, nd[parent].right),
                               c.events)
        ELSE LET p == Pop(treeNodeStack)
             IN  IF ~IsRoot(p.node) /\ IsTerminal(nd, p.node)
                 THEN LET c == CallWalkerFn(nd, walkerFn, p.node, events)
                      IN  IF c.err # "nil"
                          THEN c
                          ELSE WalkUnwindReportsEarly(nd, walkerFn, p.ns,
                                                      p.node, c.events)
                 ELSE WalkUnwindReportsEarly(nd, walkerFn, p.ns, p.node,
                                             events)

\* The inner loop of Walk, entered with the node just popped: go up while
\* the parent on top of the stack has no unvisited right child, reporting
\* each terminal parent popped; push the right child found and go back to
\* the outer loop.  Result: [events, err].
WalkUnwind(nd, walkerFn, treeNodeStack, node, events) ==
    IF StackIsEmpty(treeNodeStack)
    THEN WalkLoop(nd, walkerFn, treeNodeStack, events)
    ELSE
    LET parent == Peek(treeNodeStack)
    IN  IF nd[parent].right # NIL /\ nd[parent].right # node
        THEN WalkLoop(nd, walkerFn, Push(treeNodeStack, nd[parent].right),
                      events)
        ELSE LET p == Pop(treeNodeStack)
             IN  IF ~IsRoot(p.node) /\ IsTerminal(nd, p.node)
                 THEN LET c == CallWalkerFn(nd, walkerFn, p.node, events)
                      IN  IF c.err # "nil"
                          THEN c
                          ELSE WalkUnwind(nd, walkerFn, p.ns, p.node,
                                          c.events)
                 ELSE WalkUnwind(nd, walkerFn, p.ns, p.node, events)

\* The outer loop of Walk: push the left child, else the right child, of
\* the node on top of the stack; pop a node without children, report it if
\* it is terminal and unwind.  Result: [events, err].
WalkLoop(nd, walkerFn, treeNodeStack, events) ==
    IF StackIsEmpty(treeNodeStack)
    THEN [events |-> events, err |-> "nil"]
    ELSE
    LET node == Peek(treeNodeStack)
    IN  IF nd[node].left # NIL
        THEN WalkLoop(nd, walkerFn, Push(treeNodeStack, nd[node].left),
                      events)
        ELSE IF nd[node].right # NIL
        THEN WalkLoop(nd, walkerFn, Push(treeNodeStack, nd[node].right),
                      events)
        ELSE
        LET p == Pop(treeNodeStack)
        IN  IF IsRoot(p.node)
            THEN WalkLoop(nd, walkerFn, p.ns, events)
            ELSE IF IsTerminal(nd, p.node)
            THEN LET c == CallWalkerFn(nd, walkerFn, p.node, events)
                 IN  IF c.err # "nil"
                     THEN c
                     ELSE WalkUnwind(nd, walkerFn, p.ns, p.node, c.events)
            ELSE WalkUnwind(nd, walkerFn, p.ns, p.node, events)

\* Walk once the read lock is to be taken; the deferred runlock ends the
\* trace on every return.
WalkLocked(t, walkerFn) ==
    LET w == WalkLoop(t.nodes, walkerFn, Push(NewNodeStack, root),
                      rlock(<<>>))
    IN  [events |-> runlock(w.events), err |-> w.err]

\* Faulty variant of Walk: an empty tree is walked like any other.
WalkNoEmptyCheck(t, walkerFn) ==
    IF walkerFn.isNil
    THEN [events |-> <<>>, err |-> "ErrNoWalkerFunction"]
    ELSE WalkLocked(t, walkerFn)

\* Walk(ctx, walkerFn): [events |-> the trace of the call, err]
Walk(t, walkerFn) ==
    IF walkerFn.isNil
    THEN [events |-> <<>>, err |-> "ErrNoWalkerFunction"]
    ELSE IF IsEmpty(t)
    THEN [events |-> <<>>, err |-> "nil"]
    ELSE WalkLocked(t, walkerFn)

\* StringsTree.Walk(ctx, callback): [events, err].  The tree is walked with
\* a function that calls callback, the error of the walk is dropped and nil
\* is returned; calling a nil callback panics (the deferred runlock runs).
StringsWalk(t, callback) ==
    LET w == Walk(t, [callback EXCEPT !.isNil = FALSE])
    IN  IF callback.isNil /\ WalkerCalls(w.events) # <<>>
        THEN [events |-> runlock(rlock(<<>>)), err |-> "panic"]
        ELSE [events |-> w.events, err |-> "nil"]

---------------------------------------------------------------------------
(* The abstract view of keys: bit strings *)

\* The eight bits of a byte, most significant first.
ByteBits(b) == [i \in 1..8 |-> IF BitSet(2 ^ (8 - i), b) THEN 1 ELSE 0]

RECURSIVE BitsOf(_)
BitsOf(bytes) ==
    IF bytes = <<>> THEN <<>> ELSE ByteBits(Head(bytes)) \o BitsOf(Tail(bytes))

\* The number of leading 1 bits of a bit string.
RECURSIVE LeadingOnes(_)
LeadingOnes(bits) ==
    IF bits = <<>> \/ Head(bits) = 0 THEN 0 ELSE 1 + LeadingOnes(Tail(bits))

\* A mask is contiguous when no 1 bit follows a 0 bit.
Contiguous(mask) ==
    \A i \in 1..(8 * Len(mask)) :
        BitsOf(mask)[i] = 1 => i <= LeadingOnes(BitsOf(mask))

\* The inputs that meet the preconditions of Insert and the contract on
\* masks: equal non-zero lengths, first mask bit set, contiguous mask.
ValidInput(key, mask) ==
    /\ Len(key) = Len(mask)
    /\ Len(key) > 0
    /\ LeadingOnes(BitsOf(mask)) >= 1
    /\ Contiguous(mask)

ValidInputs == {in \in Inputs : ValidInput(in[1], in[2])}

\* The prefix a (key, mask) pair denotes: the bits of the key under the
\* leading run of 1 bits of the mask.
MaskedPrefix(key, mask) ==
    SubSeq(BitsOf(key), 1, LeadingOnes(BitsOf(mask)))

---------------------------------------------------------------------------
(* The state machine *)

Tree == [nodes |-> nodes, numNodes |-> numNodes]

Pre == [nodes |-> nodes, numNodes |-> numNodes, stored |-> stored]

\* No call has been made on the tree.
NoLast ==
    [op |-> "none", key |-> <<>>, mask |-> <<>>, value |-> zero,
     mType |-> "Exact", res |-> "none", ret |-> zero,
     err |-> "nil", pre |-> [nodes |-> NewTree.nodes,
                             numNodes |-> NewTree.numNodes,
                             stored |-> <<>>],
     walkerFn |-> NoWalkerFn, events |-> <<>>]

\* The lock behind the hooks: the goroutine holding it for writing (0: none)
\* and the goroutines holding it for reading.
FreeLock == [writer |-> 0, readers |-> {}]

\* No step of a concurrent call has been taken.
NoAccess == [self |-> 0, op |-> "none", reads |-> FALSE, writes |-> FALSE,
             writer |-> 0, readers |-> {}]

\* No operation has been made on the stack.
NoStackLast ==
    [op |-> "none", node |-> NIL, ret |-> NIL, pre |-> NewNodeStack,
     was |-> <<>>, pending |-> <<>>]

\* No goroutine runs: the calls are made one after the other.
NoGoroutines ==
    /\ handlers = LockHandlers
    /\ pc = <<>>
    /\ frame = <<>>
    /\ rwlock = FreeLock
    /\ access = NoAccess
    /\ tree0 = NewTree

\* The stack on its own is not used.
StackUnused == stack = NewNodeStack /\ stackLast = NoStackLast

Init ==
    /\ nodes = NewTree.nodes
    /\ numNodes = NewTree.numNodes
    /\ stored = <<>>
    /\ last = NoLast
    /\ NoGoroutines
    /\ StackUnused

DoInsert(key, mask, value) ==
    /\ numNodes < MaxLive
    /\ \E r \in {Insert(Tree, key, mask, value)} :
           /\ nodes' = r.t.nodes
           /\ numNodes' = r.t.numNodes
           /\ stored' = IF r.res = "Ok"
                        THEN (MaskedPrefix(key, mask) :> value) @@ stored
                        ELSE stored
           /\ last' = [op |-> "Insert", key |-> key, mask |-> mask,
                       value |-> value, mType |-> "Exact", res |-> r.res,
                       ret |-> zero, err |-> r.err, pre |-> Pre,
                       walkerFn |-> NoWalkerFn,
                       events |-> InsertHooks(key, mask)]
    /\ UNCHANGED <<concVars, stackVars>>

DoDelete(key, mask) ==
    \E r \in {Delete(Tree, key, mask)} :
        /\ nodes' = r.t.nodes
        /\ numNodes' = r.t.numNodes
        /\ stored' = IF r.res = "Match"
                     THEN [p \in DOMAIN stored \ {MaskedPrefix(key, mask)}
                              |-> stored[p]]
                     ELSE stored
        /\ last' = [op |-> "Delete", key |-> key, mask |-> mask,
                    value |-> zero, mType |-> "Exact", res |-> r.res,
                    ret |-> r.value, err |-> r.err, pre |-> Pre,
                    walkerFn |-> NoWalkerFn,
                    events |-> DeleteHooks(key, mask)]
        /\ UNCHANGED <<concVars, stackVars>>

DoSearch(key, mask, mType) ==
    \E r \in {Search(Tree, key, mask, mType)} :
        /\ last' = [op |-> "Search", key |-> key, mask |-> mask,
                    value |-> zero, mType |-> mType, res |-> r.res,
                    ret |-> r.value, err |-> r.err, pre |-> Pre,
                    walkerFn |-> NoWalkerFn,
                    events |-> SearchHooks(key, mask)]
        /\ UNCHANGED <<nodes, numNodes, stored, concVars, stackVars>>

\* Faulty variant of DoWalk: the walk unmarks the nodes it reports.
DoWalkUnmarks(walkerFn) ==
    \E r \in {Walk(Tree, walkerFn)} :
        /\ last' = [op |-> "Walk", key |-> <<>>, mask |-> <<>>,
                    value |-> zero, mType |-> "Exact", res |-> "none",
                    ret |-> zero, err |-> r.err, pre |-> Pre,
                    walkerFn |-> walkerFn, events |-> r.events]
        /\ nodes' = [n \in DOMAIN nodes |->
                        IF \E i \in DOMAIN r.events :
                               /\ r.events[i].ev = "walkerFn"
                               /\ r.events[i].node = n
                        THEN [nodes[n] EXCEPT !.terminal = FALSE]
                        ELSE nodes[n]]
        /\ UNCHANGED <<numNodes, stored, concVars, stackVars>>

DoWalk(walkerFn) ==
    \E r \in {Walk(Tree, walkerFn)} :
        /\ last' = [op |-> "Walk", key |-> <<>>, mask |-> <<>>,
                    value |-> zero, mType |-> "Exact", res |-> "none",
                    ret |-> zero, err |-> r.err, pre |-> Pre,
                    walkerFn |-> walkerFn, events |-> r.events]
        /\ UNCHANGED <<nodes, numNodes, stored, concVars, stackVars>>

Next ==
    \/ \E in \in InsertInputs, v \in Values : DoInsert(in[1], in[2], v)
    \/ \E in \in Inputs : DoDelete(in[1], in[2])
    \/ \E in \in Inputs, mType \in {"Exact", "Partial"} :
           DoSearch(in[1], in[2], mType)
    \/ \E walkerFn \in WalkerFns : DoWalk(walkerFn)

Spec == Init /\ [][Next]_vars

\* The calls that change the tree: every tree Spec reaches is reached by
\* Insert and Delete calls alone.
TreeNext ==
    \/ \E in \in InsertInputs, v \in Values : DoInsert(in[1], in[2], v)
    \/ \E in \in Inputs : DoDelete(in[1], in[2])

TreeSpec == Init /\ [][TreeNext]_vars

\* Walk on every tree: Insert calls alone reach every shape of tree, and
\* Walk visits it.
WalkNext ==
    \/ \E in \in InsertInputs, v \in Values : DoInsert(in[1], in[2], v)
    \/ \E walkerFn \in WalkerFns : DoWalk(walkerFn)

WalkSpec == Init /\ [][WalkNext]_vars

---------------------------------------------------------------------------
(* A NodeStack used on its own.  stackLast records the last operation: the *)
(* node pushed, the node returned, the stack before, and `pending`, the    *)
(* nodes pushed and not yet popped, oldest first (`was`: before the        *)
(* operation).                                                             *)

MaxStack == 4

\* The node pointers pushed; a nil pointer can be pushed too.
StackNodes == {NIL, 1, 2}

StackPush(node) ==
    /\ Size(stack) < MaxStack
    /\ stack' = Push(stack, node)
    /\ stackLast' = [op |-> "Push", node |-> node, ret |-> NIL, pre |-> stack,
                     was |-> stackLast.pending,
                     pending |-> Append(stackLast.pending, node)]
    /\ UNCHANGED <<treeVars, concVars>>

StackPop ==
    /\ \E r \in {Pop(stack)} :
           /\ stack' = r.ns
           /\ stackLast' = [op |-> "Pop", node |-> NIL, ret |-> r.node,
                            pre |-> stack, was |-> stackLast.pending,
                            pending |->
                                IF stackLast.pending = <<>>
                                THEN <<>>
                                ELSE SubSeq(stackLast.pending, 1,
                                            Len(stackLast.pending) - 1)]
    /\ UNCHANGED <<treeVars, concVars>>

StackPeek ==
    /\ stackLast' = [op |-> "Peek", node |-> NIL, ret |-> Peek(stack),
                     pre |-> stack, was |-> stackLast.pending,
                     pending |-> stackLast.pending]
    /\ UNCHANGED <<stack, treeVars, concVars>>

StackNext ==
    \/ \E node \in StackNodes : StackPush(node)
    \/ StackPop
    \/ StackPeek

StackSpec == Init /\ [][StackNext]_vars

---------------------------------------------------------------------------
(* Concurrent calls.  Each goroutine makes one call on the shared tree     *)
(* (nodes, numNodes).  A step is one access to the tree or one hook call.  *)
(* Delete and Walk make one load or one store of a field per step, and a   *)
(* field the source reads twice is loaded twice.  The hooks,               *)
(* when set, are those of a reader-writer lock: wlock waits until nobody   *)
(* holds the lock, rlock until no writer holds it.  A node cut off the     *)
(* tree stays in the heap while a goroutine may still point to it.         *)

Goroutines == {1, 2}

\* The calls the goroutines make.
ConcCalls ==
    { [op |-> "Insert", key |-> <<128>>, mask |-> <<128>>, value |-> 1,
       mType |-> "Exact"],                                    \* prefix 1
      [op |-> "Insert", key |-> <<192>>, mask |-> <<192>>, value |-> 2,
       mType |-> "Exact"],                                    \* prefix 11
      [op |-> "Delete", key |-> <<128>>, mask |-> <<128>>, value |-> zero,
       mType |-> "Exact"],                                    \* prefix 1
      [op |-> "Search", key |-> <<192>>, mask |-> <<192>>, value |-> zero,
       mType |-> "Partial"],                                  \* prefix 11
      [op |-> "Walk", key |-> <<>>, mask |-> <<>>, value |-> zero,
       mType |-> "Exact"] }

\* The walker function of the concurrent Walk calls: it never fails.
ConcWalkerFn == [isNil |-> FALSE, failAt |-> 0, err |-> "nil"]

\* The trees the concurrent calls start from: empty, prefix 1 stored,
\* prefix 11 stored.
ConcTrees ==
    { NewTree,
      Insert(NewTree, <<128>>, <<128>>, 2).t,
      Insert(NewTree, <<192>>, <<192>>, 1).t }

\* The locals of a call that has not started; `parent` is the node whose
\* link the call is about to load or store and `side` the link; `overlapped`
\* records whether another call was under way when this one began, `pushed`
\* the nodes Walk pushed on its stack, in order.
NewFrame(call) ==
    [call |-> call, node |-> NIL, next |-> NIL, match |-> msbByteVal,
     maskIdx |-> 0, ret |-> "none", ferr |-> "nil", nodeAncestors |-> NoStack,
     parent |-> NIL, side |-> "none",
     tmp |-> 0, after |-> "none", res |-> "none", value |-> zero,
     err |-> "nil", events |-> <<>>, overlapped |-> FALSE,
     treeNodeStack |-> NewNodeStack, pushed |-> <<>>]

\* The panic of a goroutine that dereferences a nil node.
PanicNil == "panic: nil pointer dereference"

\* A goroutine has panicked and its deferred calls have run: the program
\* has stopped.
Crashed == \E g \in Goroutines : pc[g] = "Done" /\ frame[g].err = PanicNil

\* t.numNodes-- on a uint64: 0 wraps to 2^64 - 1.  A value of the upper
\* half of the range of the counter is written as the negative number
\* congruent to it modulo 2^64, so -1 stands for 18446744073709551615.
DecrUint64(n) == n - 1

\* Each goroutine is about to make one of `calls` on one of `trees`.
ConcInitFrom(trees, calls, lockHandlers) ==
    /\ \E t \in trees :
           /\ nodes = t.nodes
           /\ numNodes = t.numNodes
           /\ tree0 = t
    /\ handlers = lockHandlers
    /\ pc = [self \in Goroutines |-> "Start"]
    /\ \E cs \in [Goroutines -> calls] :
           frame = [self \in Goroutines |-> NewFrame(cs[self])]
    /\ rwlock = FreeLock
    /\ access = NoAccess
    /\ stored = <<>>
    /\ last = NoLast
    /\ StackUnused

ConcInit(lockHandlers) == ConcInitFrom(ConcTrees, ConcCalls, lockHandlers)

\* The step of `self` goes to `label` with the locals `f`; `reads` and
\* `writes` tell whether it loaded or stored a field of the tree.  No step
\* is taken once the program has stopped.
Step(self, label, f, reads, writes) ==
    /\ ~Crashed
    /\ pc' = [pc EXCEPT ![self] = label]
    /\ frame' = [frame EXCEPT ![self] = f]
    /\ access' = [self |-> self, op |-> frame[self].call.op,
                  reads |-> reads, writes |-> writes,
                  writer |-> rwlock.writer, readers |-> rwlock.readers]
    /\ UNCHANGED <<handlers, tree0, stored, last, stackVars>>

\* The call returns (res, value, err) before any lock is taken.
Return(f, res, value, err) ==
    [f EXCEPT !.res = res, !.value = value, !.err = err]

\* The checks each call makes on its arguments before it takes the lock.
Start(self) ==
    /\ pc[self] = "Start"
    /\ LET f    == [frame[self] EXCEPT !.overlapped =
                       \E other \in Goroutines \ {self} :
                           pc[other] \notin {"Start", "Done"}]
           key  == f.call.key
           mask == f.call.mask
       IN  CASE f.call.op = "Insert" ->
                  IF Len(key) # Len(mask)
                  THEN Step(self, "Done",
                            Return(f, "Error", zero, "ErrInvalidKeyMask"),
                            FALSE, FALSE)
                  ELSE IF Len(key) <= 0
                  THEN Step(self, "Done",
                            Return(f, "Error", zero, "invalid key length"),
                            FALSE, FALSE)
                  ELSE IF ~BitSet(msbByteVal, mask[1])
                  THEN Step(self, "Done",
                            Return(f, "Error", zero, "ErrInvalidKeyMask"),
                            FALSE, FALSE)
                  ELSE Step(self, "wlock", f, FALSE, FALSE)
             [] f.call.op = "Delete" ->
                  IF Len(key) # Len(mask)
                  THEN Step(self, "Done",
                            Return(f, "Error", zero, "ErrInvalidKeyMask"),
                            FALSE, FALSE)
                  ELSE Step(self, "wlock", f, FALSE, FALSE)
             [] f.call.op = "Search" ->
                  IF Len(key) # Len(mask)
                  THEN Step(self, "Done",
                            Return(f, "Error", zero, "ErrInvalidKeyMask"),
                            FALSE, FALSE)
                  ELSE Step(self, "rlock", f, FALSE, FALSE)
             [] f.call.op = "Walk" ->
                  IF ConcWalkerFn.isNil
                  THEN Step(self, "Done",
                            Return(f, "none", zero, "ErrNoWalkerFunction"),
                            FALSE, FALSE)
                  ELSE Step(self, "WalkIsEmpty", f, FALSE, FALSE)
    /\ UNCHANGED <<nodes, numNodes, rwlock>>

\* t.wlock(ctx), and the locals of the body that follows it.
WLock(self) ==
    /\ pc[self] = "wlock"
    /\ IF handlers.wlockFn
       THEN /\ rwlock.writer = 0 /\ rwlock.readers = {}
            /\ rwlock' = [rwlock EXCEPT !.writer = self]
       ELSE UNCHANGED rwlock
    /\ IF frame[self].call.op = "Insert"
       THEN Step(self, "InsertLoop",
                 [frame[self] EXCEPT !.node = root, !.next = root],
                 FALSE, FALSE)
       ELSE Step(self, "findIsEmpty",
                 [frame[self] EXCEPT !.nodeAncestors = SomeStack(NewNodeStack)],
                 FALSE, FALSE)
    /\ UNCHANGED <<nodes, numNodes>>

\* t.unlock(ctx), deferred: the call returns after it.
Unlock(self) ==
    /\ pc[self] = "unlock"
    /\ IF handlers.unlockFn
       THEN rwlock' = [rwlock EXCEPT !.writer = 0]
       ELSE UNCHANGED rwlock
    /\ Step(self, "Done", frame[self], FALSE, FALSE)
    /\ UNCHANGED <<nodes, numNodes>>

\* Faulty variant of RLock: the body is entered without a call of the hook.
RLockNotTaken(self) ==
    /\ pc[self] = "rlock"
    /\ IF frame[self].call.op = "Search"
       THEN Step(self, "findIsEmpty", frame[self], FALSE, FALSE)
       ELSE Step(self, "WalkOuter",
                 [frame[self] EXCEPT
                      !.treeNodeStack = Push(NewNodeStack, root),
                      !.pushed = <<root>>],
                 FALSE, FALSE)
    /\ UNCHANGED <<nodes, numNodes, rwlock>>

\* t.rlock(ctx), and the locals of the body that follows it.
RLock(self) ==
    /\ pc[self] = "rlock"
    /\ IF handlers.rlockFn
       THEN /\ rwlock.writer = 0
            /\ rwlock' = [rwlock EXCEPT !.readers = @ \cup {self}]
       ELSE UNCHANGED rwlock
    /\ IF frame[self].call.op = "Search"
       THEN Step(self, "findIsEmpty", frame[self], FALSE, FALSE)
       ELSE Step(self, "WalkOuter",
                 [frame[self] EXCEPT
                      !.treeNodeStack = Push(NewNodeStack, root),
                      !.pushed = <<root>>],
                 FALSE, FALSE)
    /\ UNCHANGED <<nodes, numNodes>>

\* t.runlock(ctx), deferred: the call returns after it.
RUnlock(self) ==
    /\ pc[self] = "runlock"
    /\ IF handlers.runlockFn
       THEN rwlock' = [rwlock EXCEPT !.readers = @ \ {self}]
       ELSE UNCHANGED rwlock
    /\ Step(self, "Done", frame[self], FALSE, FALSE)
    /\ UNCHANGED <<nodes, numNodes>>

\* The locals after the bit under `match` is done: the next bit, the next
\* byte, or the end of the key (maskIdx = keyLen).
Advance(f) ==
    IF f.match = 1
    THEN IF Len(f.call.key) = f.maskIdx + 1
         THEN [f EXCEPT !.maskIdx = f.maskIdx + 1]
         ELSE [f EXCEPT !.maskIdx = f.maskIdx + 1, !.match = msbByteVal]
    ELSE [f EXCEPT !.match = f.match \div 2]

\* The key is exhausted: the loops break.
Exhausted(f) == Len(f.call.key) = f.maskIdx

\* One iteration of the first loop of Insert.
InsertLoop(self) ==
    /\ pc[self] = "InsertLoop"
    /\ LET f == frame[self]
       IN  IF ~BitSet(f.match, f.call.mask[f.maskIdx + 1])
           THEN Step(self, "InsertFound", f, FALSE, FALSE)
           ELSE LET next == IF BitSet(f.match, f.call.key[f.maskIdx + 1])
                            THEN nodes[f.node].right
                            ELSE nodes[f.node].left
                    g    == Advance([f EXCEPT !.node = next, !.next = next])
                IN  IF next = NIL
                    THEN Step(self, "InsertFound", [f EXCEPT !.next = NIL],
                              TRUE, FALSE)
                    ELSE IF Exhausted(g)
                    THEN Step(self, "InsertFound", g, TRUE, FALSE)
                    ELSE Step(self, "InsertLoop", g, TRUE, FALSE)
    /\ UNCHANGED <<nodes, numNodes, rwlock>>

\* What Insert does after the first loop, up to the test of the terminal
\* flag of an existing node.
InsertFound(self) ==
    /\ pc[self] = "InsertFound"
    /\ LET f == frame[self]
       IN  IF f.next # NIL
           THEN IF IsRoot(f.node)
                THEN Step(self, "unlock",
                          Return(f, "Error", zero, "ErrInsertFailed"),
                          FALSE, FALSE)
                ELSE IF IsTerminal(nodes, f.node)
                THEN Step(self, "unlock", Return(f, "Dup", zero, "nil"),
                          TRUE, FALSE)
                ELSE Step(self, "InsertMark", f, TRUE, FALSE)
           ELSE IF Exhausted(f)
           THEN Step(self, "unlock",
                     Return(f, "Error", zero, "ErrInsertFailed"),
                     FALSE, FALSE)
           ELSE Step(self, "InsertCreate", f, FALSE, FALSE)
    /\ UNCHANGED <<nodes, numNodes, rwlock>>

\* One iteration of the second loop of Insert: a new node is linked below
\* the current one.
InsertCreateStep(self) ==
    /\ pc[self] = "InsertCreate"
    /\ LET f == frame[self]
       IN  IF ~BitSet(f.match, f.call.mask[f.maskIdx + 1])
           THEN /\ Step(self, "InsertMark", f, FALSE, FALSE)
                /\ UNCHANGED nodes
           ELSE LET bit  == IF BitSet(f.match, f.call.key[f.maskIdx + 1])
                            THEN 1 ELSE 0
                    next == FreshId(nodes, f.node, bit)
                    g    == Advance([f EXCEPT !.node = next, !.next = next])
                IN  /\ nodes' = (next :> NewNode) @@
                                IF bit = 1
                                THEN [nodes EXCEPT ![f.node].right = next]
                                ELSE [nodes EXCEPT ![f.node].left = next]
                    /\ IF Exhausted(g)
                       THEN Step(self, "InsertMark", g, FALSE, TRUE)
                       ELSE Step(self, "InsertCreate", g, FALSE, TRUE)
    /\ UNCHANGED <<numNodes, rwlock>>

\* Faulty variant of InsertMark: unlock is called here, before the counter
\* is incremented, and not deferred to the return.
InsertMarkUnlocks(self) ==
    /\ pc[self] = "InsertMark"
    /\ nodes' = SaveAndMarkTerminal(nodes, frame[self].node,
                                    frame[self].call.value)
    /\ rwlock' = IF handlers.unlockFn
                 THEN [rwlock EXCEPT !.writer = 0] ELSE rwlock
    /\ Step(self, "incrNumNodes", [frame[self] EXCEPT !.after = "Done"],
            FALSE, TRUE)
    /\ UNCHANGED numNodes

\* node.SaveAndMarkTerminal(value)
InsertMark(self) ==
    /\ pc[self] = "InsertMark"
    /\ nodes' = SaveAndMarkTerminal(nodes, frame[self].node,
                                    frame[self].call.value)
    /\ Step(self, "incrNumNodes", [frame[self] EXCEPT !.after = "unlock"],
            FALSE, TRUE)
    /\ UNCHANGED <<numNodes, rwlock>>

\* t.numNodes++ : the load
IncrLoad(self) ==
    /\ pc[self] = "incrNumNodes"
    /\ Step(self, "incrNumNodesStore", [frame[self] EXCEPT !.tmp = numNodes],
            TRUE, FALSE)
    /\ UNCHANGED <<nodes, numNodes, rwlock>>

\* Faulty variant of IncrStore: the counter is stored back as it was read.
IncrStoreSame(self) ==
    /\ pc[self] = "incrNumNodesStore"
    /\ numNodes' = frame[self].tmp
    /\ Step(self, frame[self].after, Return(frame[self], "Ok", zero, "nil"),
            FALSE, TRUE)
    /\ UNCHANGED <<nodes, rwlock>>

\* t.numNodes++ : the store; Insert returns Ok
IncrStore(self) ==
    /\ pc[self] = "incrNumNodesStore"
    /\ numNodes' = frame[self].tmp + 1
    /\ Step(self, frame[self].after, Return(frame[self], "Ok", zero, "nil"),
            FALSE, TRUE)
    /\ UNCHANGED <<nodes, rwlock>>

\* The result of find, kept in the locals ret (its OpResult), ferr (its
\* error) and node; the caller goes on.
FindReturn(f, node, ret, ferr) ==
    [f EXCEPT !.node = node, !.ret = ret, !.ferr = ferr]

AfterFind(f) == IF f.call.op = "Search" THEN "SearchReturn" ELSE "DeleteFound"

\* find up to its loop: the test of the counter and of the arguments.
findIsEmpty(self) ==
    /\ pc[self] = "findIsEmpty"
    /\ LET f == frame[self]
       IN  IF IsEmpty(Tree)
           THEN Step(self, AfterFind(f),
                     FindReturn(f, NIL, "NoMatch", "ErrKeyNotFound"),
                     TRUE, FALSE)
           ELSE IF Len(f.call.key) <= 0
           THEN Step(self, AfterFind(f),
                     FindReturn(f, NIL, "Error", "invalid key length"),
                     TRUE, FALSE)
           ELSE IF ~BitSet(msbByteVal, f.call.mask[1])
           THEN Step(self, AfterFind(f),
                     FindReturn(f, NIL, "Error", "ErrInvalidKeyMask"),
                     TRUE, FALSE)
           ELSE Step(self, "findLoop",
                     [f EXCEPT !.node = root, !.ret = "Match"], TRUE, FALSE)
    /\ UNCHANGED <<nodes, numNodes, rwlock>>

\* Faulty variant of findLoop: the node is pushed twice.
findLoopPushesTwice(self) ==
    /\ pc[self] = "findLoop"
    /\ LET f == frame[self]
       IN  IF ~(f.node # NIL /\ BitSet(f.match, f.call.mask[f.maskIdx + 1]))
           THEN Step(self, "findEnd", f, FALSE, FALSE)
           ELSE IF f.call.mType = "Partial" /\ IsTerminal(nodes, f.node)
           THEN Step(self, "findEnd", [f EXCEPT !.ret = "PartialMatch"],
                     TRUE, FALSE)
           ELSE LET st == IF ~f.nodeAncestors.isNil
                          THEN SomeStack(Push(Push(f.nodeAncestors.ns, f.node),
                                              f.node))
                          ELSE f.nodeAncestors
                    nx == IF BitSet(f.match, f.call.key[f.maskIdx + 1])
                          THEN nodes[f.node].right ELSE nodes[f.node].left
                    g  == Advance([f EXCEPT !.node = nx,
                                            !.nodeAncestors = st])
                IN  IF Exhausted(g)
                    THEN Step(self, "findEnd", g, TRUE, FALSE)
                    ELSE Step(self, "findLoop", g, TRUE, FALSE)
    /\ UNCHANGED <<nodes, numNodes, rwlock>>

\* Faulty variant of findLoop: the node pushed is the child the loop moves
\* to, not the node it leaves.
findLoopPushesChild(self) ==
    /\ pc[self] = "findLoop"
    /\ LET f == frame[self]
       IN  IF ~(f.node # NIL /\ BitSet(f.match, f.call.mask[f.maskIdx + 1]))
           THEN Step(self, "findEnd", f, FALSE, FALSE)
           ELSE IF f.call.mType = "Partial" /\ IsTerminal(nodes, f.node)
           THEN Step(self, "findEnd", [f EXCEPT !.ret = "PartialMatch"],
                     TRUE, FALSE)
           ELSE LET nx == IF BitSet(f.match, f.call.key[f.maskIdx + 1])
                          THEN nodes[f.node].right ELSE nodes[f.node].left
                    st == IF ~f.nodeAncestors.isNil /\ nx # NIL
                          THEN SomeStack(Push(f.nodeAncestors.ns, nx))
                          ELSE f.nodeAncestors
                    g  == Advance([f EXCEPT !.node = nx,
                                            !.nodeAncestors = st])
                IN  IF Exhausted(g)
                    THEN Step(self, "findEnd", g, TRUE, FALSE)
                    ELSE Step(self, "findLoop", g, TRUE, FALSE)
    /\ UNCHANGED <<nodes, numNodes, rwlock>>

\* One iteration of the loop of find.
findLoop(self) ==
    /\ pc[self] = "findLoop"
    /\ LET f == frame[self]
       IN  IF ~(f.node # NIL /\ BitSet(f.match, f.call.mask[f.maskIdx + 1]))
           THEN Step(self, "findEnd", f, FALSE, FALSE)
           ELSE IF f.call.mType = "Partial" /\ IsTerminal(nodes, f.node)
           THEN Step(self, "findEnd", [f EXCEPT !.ret = "PartialMatch"],
                     TRUE, FALSE)
           ELSE LET st == IF ~f.nodeAncestors.isNil
                          THEN SomeStack(Push(f.nodeAncestors.ns, f.node))
                          ELSE f.nodeAncestors
                    nx == IF BitSet(f.match, f.call.key[f.maskIdx + 1])
                          THEN nodes[f.node].right ELSE nodes[f.node].left
                    g  == Advance([f EXCEPT !.node = nx,
                                            !.nodeAncestors = st])
                IN  IF Exhausted(g)
                    THEN Step(self, "findEnd", g, TRUE, FALSE)
                    ELSE Step(self, "findLoop", g, TRUE, FALSE)
    /\ UNCHANGED <<nodes, numNodes, rwlock>>

\* The end of find: the node reached must be terminal.
findEnd(self) ==
    /\ pc[self] = "findEnd"
    /\ LET f == frame[self]
       IN  IF f.node # NIL /\ IsTerminal(nodes, f.node)
           THEN Step(self, AfterFind(f), FindReturn(f, f.node, f.ret, "nil"),
                     TRUE, FALSE)
           ELSE Step(self, AfterFind(f),
                     FindReturn(f, NIL, "NoMatch", "ErrKeyNotFound"),
                     f.node # NIL, FALSE)
    /\ UNCHANGED <<nodes, numNodes, rwlock>>

\* Search after find.
SearchReturn(self) ==
    /\ pc[self] = "SearchReturn"
    /\ LET f     == frame[self]
           mType == f.call.mType
       IN  IF f.ferr # "nil"
           THEN Step(self, "runlock", Return(f, "Error", zero, f.ferr),
                     FALSE, FALSE)
           ELSE IF mType = "Exact" /\ f.ret # "Match"
           THEN Step(self, "runlock", Return(f, "Error", zero, f.ferr),
                     FALSE, FALSE)
           ELSE IF /\ mType = "Partial"
                   /\ f.ret # "Match"
                   /\ f.ret # "PartialMatch"
           THEN Step(self, "runlock", Return(f, "Error", zero, f.ferr),
                     FALSE, FALSE)
           ELSE IF f.node = NIL \/ ~IsTerminal(nodes, f.node) \/ IsRoot(f.node)
           THEN Step(self, "runlock",
                     Return(f, "Error", zero, "ErrKeyNotFound"),
                     f.node # NIL, FALSE)
           ELSE Step(self, "runlock",
                     Return(f, f.ret, nodes[f.node].value, "nil"),
                     TRUE, FALSE)
    /\ UNCHANGED <<nodes, numNodes, rwlock>>

\* Delete after find: the tests of the result of find and of the node,
\* with the load of node.terminal.
DeleteFound(self) ==
    /\ pc[self] = "DeleteFound"
    /\ LET f == frame[self]
       IN  IF f.ferr # "nil" \/ f.ret # "Match"
           THEN Step(self, "unlock", Return(f, "Error", zero, f.ferr),
                     FALSE, FALSE)
           ELSE IF f.node = NIL
           THEN Step(self, "unlock",
                     Return(f, "Error", zero, "ErrKeyNotFound"), FALSE, FALSE)
           ELSE IF ~IsTerminal(nodes, f.node) \/ IsRoot(f.node)
           THEN Step(self, "unlock",
                     Return(f, "Error", zero, "ErrKeyNotFound"), TRUE, FALSE)
           ELSE Step(self, "DeleteIsLeaf", f, TRUE, FALSE)
    /\ UNCHANGED <<nodes, numNodes, rwlock>>

\* if !node.IsLeaf() : the load of node.right
DeleteIsLeaf(self) ==
    /\ pc[self] = "DeleteIsLeaf"
    /\ IF nodes[frame[self].node].right # NIL
       THEN Step(self, "DeleteUnmark", frame[self], TRUE, FALSE)
       ELSE Step(self, "DeleteIsLeafLeft", frame[self], TRUE, FALSE)
    /\ UNCHANGED <<nodes, numNodes, rwlock>>

\* if !node.IsLeaf() : the load of node.left, made when node.right is nil
DeleteIsLeafLeft(self) ==
    /\ pc[self] = "DeleteIsLeafLeft"
    /\ IF nodes[frame[self].node].left # NIL
       THEN Step(self, "DeleteUnmark", frame[self], TRUE, FALSE)
       ELSE Step(self, "DeleteSaveValue", frame[self], TRUE, FALSE)
    /\ UNCHANGED <<nodes, numNodes, rwlock>>

\* node.UnmarkTerminal() : the store, for a node that was not seen a leaf
DeleteUnmark(self) ==
    /\ pc[self] = "DeleteUnmark"
    /\ nodes' = UnmarkTerminal(nodes, frame[self].node)
    /\ Step(self, "decrNumNodes", [frame[self] EXCEPT !.after = "DeleteValue"],
            FALSE, TRUE)
    /\ UNCHANGED <<numNodes, rwlock>>

\* value := node.value : the load, for a node that was seen a leaf
DeleteSaveValue(self) ==
    /\ pc[self] = "DeleteSaveValue"
    /\ Step(self, "DeletePrune",
            [frame[self] EXCEPT !.value = nodes[frame[self].node].value,
                                !.after = "DeleteReturn"], TRUE, FALSE)
    /\ UNCHANGED <<nodes, numNodes, rwlock>>

\* Faulty variant of DeletePrune: the parent is read from the top of the
\* stack and left there.
DeletePruneNoPop(self) ==
    /\ pc[self] = "DeletePrune"
    /\ LET f == frame[self]
       IN  IF StackIsEmpty(f.nodeAncestors.ns)
           THEN Step(self, "decrNumNodes", f, FALSE, FALSE)
           ELSE LET parent == Peek(f.nodeAncestors.ns)
                IN  Step(self, "DeleteCut",
                         [f EXCEPT !.parent = parent,
                                   !.side = IF f.node = nodes[parent].right
                                            THEN "right" ELSE "left"],
                         TRUE, FALSE)
    /\ UNCHANGED <<nodes, numNodes, rwlock>>

\* The head of the pruning loop of Delete: the test of the stack, the Pop
\* of the parent and the load of parent.right for `node == parent.right`.
DeletePrune(self) ==
    /\ pc[self] = "DeletePrune"
    /\ LET f == frame[self]
       IN  IF StackIsEmpty(f.nodeAncestors.ns)
           THEN Step(self, "decrNumNodes", f, FALSE, FALSE)
           ELSE LET p == Pop(f.nodeAncestors.ns)
                IN  Step(self, "DeleteCut",
                         [f EXCEPT !.parent = p.node,
                                   !.nodeAncestors = SomeStack(p.ns),
                                   !.side = IF f.node = nodes[p.node].right
                                            THEN "right" ELSE "left"],
                         TRUE, FALSE)
    /\ UNCHANGED <<nodes, numNodes, rwlock>>

\* parent.right = nil, or parent.left = nil : the store; node = parent
DeleteCut(self) ==
    /\ pc[self] = "DeleteCut"
    /\ LET f == frame[self]
       IN  /\ nodes' = IF f.side = "right"
                       THEN [nodes EXCEPT ![f.parent].right = NIL]
                       ELSE [nodes EXCEPT ![f.parent].left = NIL]
           /\ Step(self, "DeletePruneIsLeaf", [f EXCEPT !.node = f.parent],
                   FALSE, TRUE)
    /\ UNCHANGED <<numNodes, rwlock>>

\* if !node.IsLeaf() || ... { break } : the load of node.right
DeletePruneIsLeaf(self) ==
    /\ pc[self] = "DeletePruneIsLeaf"
    /\ IF nodes[frame[self].node].right # NIL
       THEN Step(self, "decrNumNodes", frame[self], TRUE, FALSE)
       ELSE Step(self, "DeletePruneIsLeafLeft", frame[self], TRUE, FALSE)
    /\ UNCHANGED <<nodes, numNodes, rwlock>>

\* if !node.IsLeaf() || ... { break } : the load of node.left
DeletePruneIsLeafLeft(self) ==
    /\ pc[self] = "DeletePruneIsLeafLeft"
    /\ IF nodes[frame[self].node].left # NIL
       THEN Step(self, "decrNumNodes", frame[self], TRUE, FALSE)
       ELSE Step(self, "DeletePruneIsTerminal", frame[self], TRUE, FALSE)
    /\ UNCHANGED <<nodes, numNodes, rwlock>>

\* if ... || node.IsTerminal() || t.IsRoot(node) { break } : the load of
\* node.terminal
DeletePruneIsTerminal(self) ==
    /\ pc[self] = "DeletePruneIsTerminal"
    /\ IF IsTerminal(nodes, frame[self].node) \/ IsRoot(frame[self].node)
       THEN Step(self, "decrNumNodes", frame[self], TRUE, FALSE)
       ELSE Step(self, "DeletePrune", frame[self], TRUE, FALSE)
    /\ UNCHANGED <<nodes, numNodes, rwlock>>

\* decrNumNodes: if t.numNodes > 0, the load and the test.  The counter is
\* a uint64, so it is positive when it is not 0.
DecrLoad(self) ==
    /\ pc[self] = "decrNumNodes"
    /\ IF numNodes # 0
       THEN Step(self, "decrNumNodesReload", frame[self], TRUE, FALSE)
       ELSE Step(self, frame[self].after, frame[self], TRUE, FALSE)
    /\ UNCHANGED <<nodes, numNodes, rwlock>>

\* decrNumNodes: t.numNodes-- , the load
DecrReload(self) ==
    /\ pc[self] = "decrNumNodesReload"
    /\ Step(self, "decrNumNodesStore", [frame[self] EXCEPT !.tmp = numNodes],
            TRUE, FALSE)
    /\ UNCHANGED <<nodes, numNodes, rwlock>>

\* decrNumNodes: t.numNodes-- , the store
DecrStore(self) ==
    /\ pc[self] = "decrNumNodesStore"
    /\ numNodes' = DecrUint64(frame[self].tmp)
    /\ Step(self, frame[self].after, frame[self], FALSE, TRUE)
    /\ UNCHANGED <<nodes, rwlock>>

\* return Match, node.value, nil : the value of the unmarked node is read
\* after the counter is decremented.
DeleteValue(self) ==
    /\ pc[self] = "DeleteValue"
    /\ Step(self, "unlock",
            Return(frame[self], "Match", nodes[frame[self].node].value, "nil"),
            TRUE, FALSE)
    /\ UNCHANGED <<nodes, numNodes, rwlock>>

\* return Match, value, nil
DeleteReturn(self) ==
    /\ pc[self] = "DeleteReturn"
    /\ Step(self, "unlock",
            Return(frame[self], "Match", frame[self].value, "nil"),
            FALSE, FALSE)
    /\ UNCHANGED <<nodes, numNodes, rwlock>>

\* if t.IsEmpty() { return nil } : Walk tests the counter before t.rlock.
WalkIsEmpty(self) ==
    /\ pc[self] = "WalkIsEmpty"
    /\ IF IsEmpty(Tree)
       THEN Step(self, "Done", Return(frame[self], "none", zero, "nil"),
                 TRUE, FALSE)
       ELSE Step(self, "rlock", frame[self], TRUE, FALSE)
    /\ UNCHANGED <<nodes, numNodes, rwlock>>

\* The locals after Walk pushed `node` on its stack.
WalkPush(f, node) ==
    [f EXCEPT !.treeNodeStack = Push(f.treeNodeStack, node),
              !.pushed = Append(f.pushed, node)]

\* The head of the outer loop of Walk: the test of the stack, the Peek and
\* the load of node.left.  A nil on the stack is dereferenced here: the
\* goroutine panics, and its deferred runlock runs.
WalkOuterStep(self) ==
    /\ pc[self] = "WalkOuter"
    /\ LET f == frame[self]
       IN  IF StackIsEmpty(f.treeNodeStack)
           THEN Step(self, "runlock", Return(f, "none", zero, "nil"),
                     FALSE, FALSE)
           ELSE LET node == Peek(f.treeNodeStack)
                IN  IF node = NIL
                    THEN Step(self, "runlock", [f EXCEPT !.err = PanicNil],
                              FALSE, FALSE)
                    ELSE IF nodes[node].left # NIL
                    THEN Step(self, "WalkPush",
                              [f EXCEPT !.parent = node, !.side = "left"],
                              TRUE, FALSE)
                    ELSE Step(self, "WalkRight", [f EXCEPT !.parent = node],
                              TRUE, FALSE)
    /\ UNCHANGED <<nodes, numNodes, rwlock>>

\* treeNodeStack.Push(node.left), Push(node.right), Push(parent.right) : the
\* field is loaded again for the Push; what is pushed may be nil when
\* another goroutine has cleared the link since the test.
WalkPushChild(self) ==
    /\ pc[self] = "WalkPush"
    /\ LET f     == frame[self]
           child == IF f.side = "left"
                    THEN nodes[f.parent].left ELSE nodes[f.parent].right
       IN  Step(self, "WalkOuter", WalkPush(f, child), TRUE, FALSE)
    /\ UNCHANGED <<nodes, numNodes, rwlock>>

\* if nil != node.right : the load; without a right child the node is
\* popped and the root is ignored.
WalkRight(self) ==
    /\ pc[self] = "WalkRight"
    /\ LET f == frame[self]
       IN  IF nodes[f.parent].right # NIL
           THEN Step(self, "WalkPush", [f EXCEPT !.side = "right"],
                     TRUE, FALSE)
           ELSE LET p == Pop(f.treeNodeStack)
                    g == [f EXCEPT !.treeNodeStack = p.ns, !.node = p.node]
                IN  IF IsRoot(p.node)
                    THEN Step(self, "WalkOuter", g, TRUE, FALSE)
                    ELSE Step(self, "WalkIsTerminal", g, TRUE, FALSE)
    /\ UNCHANGED <<nodes, numNodes, rwlock>>

\* if node.IsTerminal() : the load, for the node popped by the outer loop
WalkIsTerminal(self) ==
    /\ pc[self] = "WalkIsTerminal"
    /\ IF IsTerminal(nodes, frame[self].node)
       THEN Step(self, "WalkCall", frame[self], TRUE, FALSE)
       ELSE Step(self, "WalkUnwind", frame[self], TRUE, FALSE)
    /\ UNCHANGED <<nodes, numNodes, rwlock>>

\* err := walkerFn(ctx, node.value), and the return of Walk with the error.
WalkCallStep(self) ==
    /\ pc[self] = "WalkCall"
    /\ \E c \in {CallWalkerFn(nodes, ConcWalkerFn, frame[self].node,
                              frame[self].events)} :
           IF c.err # "nil"
           THEN Step(self, "runlock",
                     [frame[self] EXCEPT !.events = c.events, !.err = c.err],
                     TRUE, FALSE)
           ELSE Step(self, "WalkUnwind",
                     [frame[self] EXCEPT !.events = c.events], TRUE, FALSE)
    /\ UNCHANGED <<nodes, numNodes, rwlock>>

\* The head of the inner loop of Walk: the test of the stack, the Peek and
\* the load of parent.right for `nil != parent.right`.
WalkUnwindStep(self) ==
    /\ pc[self] = "WalkUnwind"
    /\ LET f == frame[self]
       IN  IF StackIsEmpty(f.treeNodeStack)
           THEN Step(self, "WalkOuter", f, FALSE, FALSE)
           ELSE LET parent == Peek(f.treeNodeStack)
                IN  IF nodes[parent].right # NIL
                    THEN Step(self, "WalkUnwindCmp",
                              [f EXCEPT !.parent = parent], TRUE, FALSE)
                    ELSE Step(self, "WalkUnwindPop",
                              [f EXCEPT !.parent = parent], TRUE, FALSE)
    /\ UNCHANGED <<nodes, numNodes, rwlock>>

\* ... && parent.right != node : the second load of parent.right
WalkUnwindCmp(self) ==
    /\ pc[self] = "WalkUnwindCmp"
    /\ IF nodes[frame[self].parent].right # frame[self].node
       THEN Step(self, "WalkPush", [frame[self] EXCEPT !.side = "right"],
                 TRUE, FALSE)
       ELSE Step(self, "WalkUnwindPop", frame[self], TRUE, FALSE)
    /\ UNCHANGED <<nodes, numNodes, rwlock>>

\* node = treeNodeStack.Pop(), and the test of the node popped: the load
\* of node.terminal for a node that is not the root.
WalkUnwindPop(self) ==
    /\ pc[self] = "WalkUnwindPop"
    /\ LET f == frame[self]
           p == Pop(f.treeNodeStack)
           g == [f EXCEPT !.treeNodeStack = p.ns, !.node = p.node]
       IN  IF IsRoot(p.node)
           THEN Step(self, "WalkUnwind", g, FALSE, FALSE)
           ELSE IF IsTerminal(nodes, p.node)
           THEN Step(self, "WalkCall", g, TRUE, FALSE)
           ELSE Step(self, "WalkUnwind", g, TRUE, FALSE)
    /\ UNCHANGED <<nodes, numNodes, rwlock>>

ConcNext ==
    \E self \in Goroutines :
        \/ Start(self)
        \/ WLock(self)
        \/ Unlock(self)
        \/ RLock(self)
        \/ RUnlock(self)
        \/ InsertLoop(self)
        \/ InsertFound(self)
        \/ InsertCreateStep(self)
        \/ InsertMark(self)
        \/ IncrLoad(self)
        \/ IncrStore(self)
        \/ findIsEmpty(self)
        \/ findLoop(self)
        \/ findEnd(self)
        \/ SearchReturn(self)
        \/ DeleteFound(self)
        \/ DeleteIsLeaf(self)
        \/ DeleteIsLeafLeft(self)
        \/ DeleteUnmark(self)
        \/ DeleteSaveValue(self)
        \/ DeletePrune(self)
        \/ DeleteCut(self)
        \/ DeletePruneIsLeaf(self)
        \/ DeletePruneIsLeafLeft(self)
        \/ DeletePruneIsTerminal(self)
        \/ DecrLoad(self)
        \/ DecrReload(self)
        \/ DecrStore(self)
        \/ DeleteValue(self)
        \/ DeleteReturn(self)
        \/ WalkIsEmpty(self)
        \/ WalkOuterStep(self)
        \/ WalkPushChild(self)
        \/ WalkRight(self)
        \/ WalkIsTerminal(self)
        \/ WalkCallStep(self)
        \/ WalkUnwindStep(self)
        \/ WalkUnwindCmp(self)
        \/ WalkUnwindPop(self)

\* The calls run with the hooks of a reader-writer lock.
LockedSpec == ConcInit(LockHandlers) /\ [][ConcNext]_vars

\* The calls run with no hook set.
RaceSpec == ConcInit(NoLockHandlers) /\ [][ConcNext]_vars

\* The tree after the Inserts of a sequence of <<key, mask, value>>.
RECURSIVE InsertAll(_, _)
InsertAll(t, ins) ==
    IF ins = <<>>
    THEN t
    ELSE InsertAll(Insert(t, Head(ins)[1], Head(ins)[2], Head(ins)[3]).t,
                   Tail(ins))

\* Deeper trees for the steps of the loops: the prefixes 0, 10, 11; the
\* prefixes 1, 10, 11; the prefix 1 and the 16-bit prefix below it.
StepTrees ==
    { InsertAll(NewTree, << <<  <<0>>,   <<128>>, 1 >>,
                            <<  <<128>>, <<192>>, 2 >>,
                            <<  <<192>>, <<192>>, 1 >> >>),
      InsertAll(NewTree, << <<  <<128>>, <<128>>, 2 >>,
                            <<  <<128>>, <<192>>, 1 >>,
                            <<  <<192>>, <<192>>, 2 >> >>),
      InsertAll(NewTree, << <<  <<128>>,      <<128>>,      1 >>,
                            <<  <<128, 128>>, <<255, 255>>, 2 >> >>) }

\* The calls made on them: those of ConcCalls, and the Deletes of the
\* prefix 10 and of the 16-bit prefix.
StepCalls ==
    ConcCalls \cup
    { [op |-> "Delete", key |-> <<128>>, mask |-> <<192>>, value |-> zero,
       mType |-> "Exact"],
      [op |-> "Delete", key |-> <<128, 128>>, mask |-> <<255, 255>>,
       value |-> zero, mType |-> "Exact"] }

\* The calls run on the deeper trees with the hooks of a reader-writer
\* lock; a goroutine that can take a step is not held up for ever (the
\* hooks and the walker function return).
StepSpec ==
    /\ ConcInitFrom(StepTrees, StepCalls, LockHandlers)
    /\ [][ConcNext]_vars
    /\ WF_vars(ConcNext)

---------------------------------------------------------------------------
(* Properties *)

\* The 16-bit prefix of the two-byte input.
DeepPrefix == MaskedPrefix(<<128, 128>>, <<255, 255>>)

\* The (key, mask) of the last call denotes a prefix the map held before it.
LastWasStored ==
    /\ ValidInput(last.key, last.mask)
    /\ MaskedPrefix(last.key, last.mask) \in DOMAIN last.pre.stored

\* The last call left nodes, links, flags, values and the counter as they were.
LastLeftTreeUnchanged ==
    /\ nodes = last.pre.nodes
    /\ numNodes = last.pre.numNodes

\* C1: SearchExact is the abstract map.  For every valid (key, mask),
\* SearchExact returns Match with value V exactly when the map from masked
\* prefixes to the values of the inserts that returned Ok and were not
\* deleted since holds that prefix with V; otherwise it returns Error with
\* key-not-found.
C1_SearchExactIsTheMap ==
    \A in \in ValidInputs :
        LET r == SearchExact(Tree, in[1], in[2])
            p == MaskedPrefix(in[1], in[2])
        IN  IF p \in DOMAIN stored
            THEN r = [res |-> "Match", value |-> stored[p], err |-> "nil"]
            ELSE r = [res |-> "Error", value |-> zero,
                      err |-> "ErrKeyNotFound"]

\* A key below a stored prefix was just deleted; the stored prefix is still
\* found and the prefix 10000000 below it is a miss.
C1_Witness ==
    /\ last.op = "Delete" /\ last.res = "Match"
    /\ <<1, 0>> \in DOMAIN stored
    /\ DeepPrefix \in DOMAIN last.pre.stored
    /\ SearchExact(Tree, <<128>>, <<192>>).res = "Match"
    /\ SearchExact(Tree, <<128>>, <<255>>).res = "Error"

\* C2: an Insert of a valid (key, mask) whose prefix is not stored returns
\* Ok, and SearchExact of the same (key, mask) right after it returns Match
\* with the inserted value.
C2_InsertThenSearchExact ==
    (last.op = "Insert" /\ ValidInput(last.key, last.mask) /\ ~LastWasStored)
        => /\ last.res = "Ok" /\ last.err = "nil"
           /\ SearchExact(Tree, last.key, last.mask)
                  = [res |-> "Match", value |-> last.value, err |-> "nil"]

\* Such an Insert that created no node: it marked an interior node that had
\* kept the value of an earlier, deleted key.
C2_Witness ==
    /\ last.op = "Insert" /\ last.res = "Ok" /\ ~LastWasStored
    /\ DOMAIN nodes = DOMAIN last.pre.nodes
    /\ \E n \in DOMAIN nodes :
           /\ nodes[n].terminal /\ ~last.pre.nodes[n].terminal
           /\ last.pre.nodes[n].value \notin {zero, last.value}

\* The number of terminal nodes of the tree.
TerminalCensus == Cardinality({n \in DOMAIN nodes : nodes[n].terminal})

\* C3: the live counter equals the number of terminal nodes of the tree; it
\* never goes below zero, and IsEmpty holds exactly when no key is stored.
C3_CounterIsTerminalCensus ==
    /\ numNodes = TerminalCensus
    /\ numNodes >= 0
    /\ GetNodesCount(Tree) = Cardinality(DOMAIN stored)
    /\ IsEmpty(Tree) <=> DOMAIN stored = {}

\* The only stored key was just deleted: the counter is back at zero.
C3_Witness ==
    /\ last.op = "Delete" /\ last.res = "Match"
    /\ last.pre.numNodes = 1 /\ numNodes = 0
    /\ TerminalCensus = 0

\* C4: every node other than the root that is not terminal has a child.
C4_NoOrphanInteriorNode ==
    \A n \in DOMAIN nodes \ {root} :
        ~IsTerminal(nodes, n) => ~IsLeaf(nodes, n)

\* A Delete pruned a chain of several nodes and stopped below the root, at
\* a node that is kept.
C4_Witness ==
    /\ last.op = "Delete" /\ last.res = "Match"
    /\ Cardinality(DOMAIN last.pre.nodes) >= Cardinality(DOMAIN nodes) + 2
    /\ Cardinality(DOMAIN nodes) >= 2

\* C5: an Insert that returned Ok, repeated at once with the same
\* (key, mask), returns Dup and leaves the counter at one more than before
\* the first call; an Insert that returns Dup does not change the counter.
C5_SecondInsertIsDup ==
    /\ (last.op = "Insert" /\ last.res = "Ok")
           => /\ numNodes = last.pre.numNodes + 1
              /\ \A v \in Values :
                     LET r == Insert(Tree, last.key, last.mask, v)
                     IN  /\ r.res = "Dup" /\ r.err = "nil"
                         /\ GetNodesCount(r.t) = last.pre.numNodes + 1
    /\ (last.op = "Insert" /\ last.res = "Dup")
           => numNodes = last.pre.numNodes

\* An Insert returned Dup in a tree holding two keys.
C5_Witness ==
    /\ last.op = "Insert" /\ last.res = "Dup"
    /\ last.pre.numNodes = 2 /\ numNodes = 2

\* C6: an Insert that returns Dup changes no node, link, flag or value, and
\* SearchExact still returns the value of the Insert that returned Ok.
C6_DupKeepsValue ==
    (last.op = "Insert" /\ last.res = "Dup")
        => /\ LastLeftTreeUnchanged
           /\ stored = last.pre.stored
           /\ SearchExact(Tree, last.key, last.mask)
                  = [res   |-> "Match",
                     value |-> last.pre.stored[
                                   MaskedPrefix(last.key, last.mask)],
                     err   |-> "nil"]

\* An Insert returned Dup while offering a value other than the stored one.
C6_Witness ==
    /\ last.op = "Insert" /\ last.res = "Dup"
    /\ last.value # stored[MaskedPrefix(last.key, last.mask)]

\* C7: Delete of a stored (key, mask) returns Match with the stored value
\* and lowers the counter by one; after it SearchExact of the same
\* (key, mask) returns Error, and so does a second Delete.
C7_DeleteStored ==
    (last.op = "Delete" /\ LastWasStored)
        => /\ last.res = "Match" /\ last.err = "nil"
           /\ last.ret = last.pre.stored[MaskedPrefix(last.key, last.mask)]
           /\ numNodes = last.pre.numNodes - 1
           /\ SearchExact(Tree, last.key, last.mask).res = "Error"
           /\ Delete(Tree, last.key, last.mask).res = "Error"
           /\ Delete(Tree, last.key, last.mask).err # "nil"

\* A stored key whose node has a child was deleted.
C7_Witness ==
    /\ last.op = "Delete" /\ LastWasStored /\ last.res = "Match"
    /\ DOMAIN nodes = DOMAIN last.pre.nodes
    /\ numNodes >= 1

\* The inputs the contract covers: a contiguous mask, or lengths that differ.
InContract(key, mask) == Len(key) # Len(mask) \/ Contiguous(mask)

\* C8: Delete of a (key, mask) that is not stored returns Error and leaves
\* nodes, links, flags, values and the counter as they were.
C8_DeleteMissing ==
    (last.op = "Delete" /\ InContract(last.key, last.mask) /\ ~LastWasStored)
        => /\ last.res = "Error" /\ last.err # "nil"
           /\ LastLeftTreeUnchanged

\* Delete of the prefix 10000000 landed on an interior node of the stored
\* 16-bit chain, below the stored prefix 10.
C8_Witness ==
    /\ last.op = "Delete" /\ last.res = "Error"
    /\ last.key = <<128>> /\ last.mask = <<255>>
    /\ <<1, 0>> \in DOMAIN stored
    /\ DeepPrefix \in DOMAIN stored

\* The inputs Insert rejects: lengths differ, empty, or first mask bit 0.
InvalidForInsert(key, mask) ==
    \/ Len(key) # Len(mask)
    \/ Len(key) = 0
    \/ ~BitSet(msbByteVal, mask[1])

\* C9: Insert with key and mask of different lengths, with an empty key and
\* mask, or with a mask whose first bit is 0 returns Error with an error and
\* leaves the tree and the counter as they were.
C9_InsertInvalid ==
    (last.op = "Insert" /\ InvalidForInsert(last.key, last.mask))
        => /\ last.res = "Error" /\ last.err # "nil"
           /\ LastLeftTreeUnchanged

\* Insert was refused for a mask longer than the key, in a tree that holds
\* the prefix 1 on the path that key would take.
C9_Witness ==
    /\ last.op = "Insert" /\ last.res = "Error"
    /\ Len(last.key) < Len(last.mask)
    /\ <<1>> \in DOMAIN stored

\* C10: the root is never terminal, and neither Search nor Delete ever gets
\* the root from find as its match, for valid and invalid inputs alike.
C10_RootNeverMatched ==
    /\ ~IsTerminal(nodes, root)
    /\ \A in \in Inputs :
           Len(in[1]) = Len(in[2]) =>
               /\ find(Tree, in[1], in[2], "Exact", NoStack).node # root
               /\ find(Tree, in[1], in[2], "Partial", NoStack).node # root
               /\ find(Tree, in[1], in[2], "Exact",
                       SomeStack(NewNodeStack)).node # root
    /\ (last.op \in {"Search", "Delete"}
            /\ last.res \in {"Match", "PartialMatch"})
           => find([nodes |-> last.pre.nodes, numNodes |-> last.pre.numNodes],
                   last.key, last.mask, last.mType, NoStack).node # root

\* A Search with a mask whose first bit is 0 was refused in a tree whose
\* root has a left child.
C10_Witness ==
    /\ last.op = "Search" /\ last.res = "Error"
    /\ last.err = "ErrInvalidKeyMask"
    /\ ~BitSet(msbByteVal, last.mask[1])
    /\ nodes[root].left # NIL

---------------------------------------------------------------------------
(* Partial search *)

\* p is a leading part of the bit string q.
IsPrefixOf(p, q) == Len(p) <= Len(q) /\ SubSeq(q, 1, Len(p)) = p

\* The stored prefixes on the bit path of q, q itself included.
Covering(q) == {p \in DOMAIN stored : IsPrefixOf(p, q)}

\* The shortest bit string of a non-empty set of nested bit strings.
Shortest(S) == CHOOSE p \in S : \A r \in S : Len(p) <= Len(r)

\* C11: when several stored prefixes are nested along the bit path of a
\* query, SearchPartial succeeds with the value of the shortest of them.
C11_PartialReturnsShortest ==
    \A in \in ValidInputs :
        LET q == MaskedPrefix(in[1], in[2])
            r == SearchPartial(Tree, in[1], in[2])
        IN  Cardinality(Covering(q)) >= 2
                => /\ r.res \in {"Match", "PartialMatch"}
                   /\ r.err = "nil"
                   /\ r.value = stored[Shortest(Covering(q))]

\* A Partial search of the 16-bit key ran with the prefixes 1, 10 and the
\* key itself stored, the shortest and the longest with different values.
C11_Witness ==
    /\ last.op = "Search" /\ last.mType = "Partial"
    /\ MaskedPrefix(last.key, last.mask) = DeepPrefix
    /\ Covering(DeepPrefix) = {<<1>>, <<1, 0>>, DeepPrefix}
    /\ stored[<<1>>] # stored[DeepPrefix]
    /\ stored[<<1>>] # stored[<<1, 0>>]
    /\ last.ret = stored[<<1>>]

\* C12: SearchPartial of a valid (key, mask) succeeds, with Match or
\* PartialMatch, exactly when some stored prefix no longer than the mask
\* equals the leading bits of the key; otherwise it returns Error with
\* key-not-found.
C12_PartialSucceedsIffCovered ==
    \A in \in ValidInputs :
        LET q == MaskedPrefix(in[1], in[2])
            r == SearchPartial(Tree, in[1], in[2])
        IN  IF Covering(q) # {}
            THEN r.res \in {"Match", "PartialMatch"} /\ r.err = "nil"
            ELSE r = [res |-> "Error", value |-> zero,
                      err |-> "ErrKeyNotFound"]

\* A Partial search for the prefix 10 missed although a longer prefix on
\* its path and a prefix off its path are stored.
C12_Witness ==
    /\ last.op = "Search" /\ last.mType = "Partial"
    /\ MaskedPrefix(last.key, last.mask) = <<1, 0>>
    /\ last.res = "Error" /\ last.err = "ErrKeyNotFound"
    /\ DeepPrefix \in DOMAIN stored
    /\ <<1, 1>> \in DOMAIN stored

\* The valid inputs whose mask is all ones.
FullMaskInputs ==
    {in \in ValidInputs : LeadingOnes(BitsOf(in[2])) = 8 * Len(in[2])}

\* The stored prefixes on the path of q that are shorter than q.
ShorterCovering(q) == {p \in Covering(q) : Len(p) < Len(q)}

\* C13 as stated: with a stored prefix shorter than the key, SearchPartial
\* of a key inside it with an all-ones mask returns Match.
C13_FullMaskPartialIsMatch ==
    \A in \in FullMaskInputs :
        ShorterCovering(MaskedPrefix(in[1], in[2])) # {}
            => SearchPartial(Tree, in[1], in[2]).res = "Match"

\* C13 amended: with a stored prefix shorter than the key, SearchPartial of
\* a key inside it with an all-ones mask returns PartialMatch, with the
\* value of the shortest stored prefix on its path.
C13_FullMaskPartialIsPartialMatch ==
    \A in \in FullMaskInputs :
        LET q == MaskedPrefix(in[1], in[2])
        IN  ShorterCovering(q) # {}
                => SearchPartial(Tree, in[1], in[2])
                       = [res   |-> "PartialMatch",
                          value |-> stored[Shortest(ShorterCovering(q))],
                          err   |-> "nil"]

\* The prefix 10 was the only key stored when a Partial search of the
\* one-byte key 10000000 with mask 11111111 returned its value.
C13_Witness ==
    /\ last.op = "Search" /\ last.mType = "Partial"
    /\ last.key = <<128>> /\ last.mask = <<255>>
    /\ DOMAIN stored = {<<1, 0>>}
    /\ last.res = "PartialMatch" /\ last.ret = stored[<<1, 0>>]

\* C14 as stated: for a query longer than a stored prefix on its path, a
\* Partial search returns PartialMatch with that prefix's value and
\* SearchExact returns Error.
C14_LongerQueryAsStated ==
    \A in \in ValidInputs :
        \A p \in ShorterCovering(MaskedPrefix(in[1], in[2])) :
            /\ SearchPartial(Tree, in[1], in[2])
                   = [res |-> "PartialMatch", value |-> stored[p],
                      err |-> "nil"]
            /\ SearchExact(Tree, in[1], in[2]).res = "Error"

\* C14 amended: for a query longer than a stored prefix on its path, a
\* Partial search returns PartialMatch with the value of the shortest such
\* prefix, and SearchExact returns Error unless the query's own prefix is
\* stored, in which case it returns Match.
C14_LongerQuery ==
    \A in \in ValidInputs :
        LET q == MaskedPrefix(in[1], in[2])
        IN  ShorterCovering(q) # {}
                => /\ SearchPartial(Tree, in[1], in[2])
                          = [res   |-> "PartialMatch",
                             value |-> stored[Shortest(ShorterCovering(q))],
                             err   |-> "nil"]
                   /\ SearchExact(Tree, in[1], in[2]).res
                          = IF q \in DOMAIN stored THEN "Match" ELSE "Error"

\* A Partial search of the prefix 110 returned PartialMatch below the stored
\* prefix 11, where SearchExact of it is an Error.
C14_Witness ==
    /\ last.op = "Search" /\ last.mType = "Partial"
    /\ MaskedPrefix(last.key, last.mask) = <<1, 1, 0>>
    /\ <<1, 1>> \in DOMAIN stored /\ <<1>> \notin DOMAIN stored
    /\ last.res = "PartialMatch" /\ last.ret = stored[<<1, 1>>]
    /\ SearchExact(Tree, last.key, last.mask).res = "Error"

\* C15 as stated: SearchPartial of every stored (key, mask) returns Match
\* with the value stored for that key.
C15_StoredPartialIsMatch ==
    \A in \in ValidInputs :
        LET q == MaskedPrefix(in[1], in[2])
        IN  q \in DOMAIN stored
                => SearchPartial(Tree, in[1], in[2])
                       = [res |-> "Match", value |-> stored[q],
                          err |-> "nil"]

\* C15: SearchPartial of a stored (key, mask) returns Match with the value
\* stored for that key when no shorter stored prefix lies on its path, and
\* PartialMatch with the value of the shortest stored prefix on its path
\* when there is one.
C15_StoredPartialFindsShortest ==
    \A in \in ValidInputs :
        LET q == MaskedPrefix(in[1], in[2])
        IN  q \in DOMAIN stored
                => SearchPartial(Tree, in[1], in[2])
                       = IF ShorterCovering(q) = {}
                         THEN [res |-> "Match", value |-> stored[q],
                               err |-> "nil"]
                         ELSE [res   |-> "PartialMatch",
                               value |-> stored[Shortest(ShorterCovering(q))],
                               err   |-> "nil"]

\* A Partial search of the stored prefix 10 returned PartialMatch with the
\* value of the stored prefix 1, which is not the value stored for 10; and
\* a Partial search of the prefix 1 itself returns Match with its value.
C15_Witness ==
    /\ last.op = "Search" /\ last.mType = "Partial"
    /\ MaskedPrefix(last.key, last.mask) = <<1, 0>>
    /\ <<1>> \in DOMAIN stored /\ <<1, 0>> \in DOMAIN stored
    /\ stored[<<1>>] # stored[<<1, 0>>]
    /\ last.res = "PartialMatch" /\ last.ret = stored[<<1>>]
    /\ SearchPartial(Tree, <<128>>, <<128>>)
           = [res |-> "Match", value |-> stored[<<1>>], err |-> "nil"]

---------------------------------------------------------------------------
(* Frame of Delete *)

\* The tree before the last operation.
PreTree == [nodes |-> last.pre.nodes, numNodes |-> last.pre.numNodes]

\* The last operation was a Delete that returned Match.
LastDeleted == last.op = "Delete" /\ last.res = "Match"

\* C16: after a successful Delete every other key that SearchExact found
\* before is still found by SearchExact, with the value it had.
C16_DeleteKeepsOtherKeys ==
    LastDeleted =>
        \A in \in ValidInputs :
            LET q  == MaskedPrefix(in[1], in[2])
                r0 == SearchExact(PreTree, in[1], in[2])
            IN  (q # MaskedPrefix(last.key, last.mask) /\ r0.res = "Match")
                    => /\ q \in DOMAIN last.pre.stored
                       /\ r0.value = last.pre.stored[q]
                       /\ SearchExact(Tree, in[1], in[2]) = r0

\* The leaf 11 was deleted next to its stored sibling 10 and below the
\* stored prefix 1, the three holding two different values.
C16_Witness ==
    /\ LastDeleted
    /\ MaskedPrefix(last.key, last.mask) = <<1, 1>>
    /\ DOMAIN last.pre.stored = {<<1>>, <<1, 0>>, <<1, 1>>}
    /\ last.pre.stored[<<1>>] # last.pre.stored[<<1, 0>>]
    /\ DOMAIN stored = {<<1>>, <<1, 0>>}

\* The node SearchExact of the last operation's key reached before it.
PreNode == find(PreTree, last.key, last.mask, "Exact", NoStack).node

\* Node n has a left or a right child.
HasChild(nd, n) == nd[n].left # NIL \/ nd[n].right # NIL

\* C17: a successful Delete of a key whose node has a child leaves every
\* node and link in place: it clears that node's terminal flag, decrements
\* the counter by 1 and returns the node's value.
C17_DeleteInnerKeepsNodes ==
    (LastDeleted /\ HasChild(last.pre.nodes, PreNode))
        => /\ nodes = [last.pre.nodes EXCEPT ![PreNode].terminal = FALSE]
           /\ last.pre.nodes[PreNode].terminal
           /\ numNodes = last.pre.numNodes - 1
           /\ last.ret = last.pre.nodes[PreNode].value
           /\ last.err = "nil"

\* The prefix 1 was deleted while only its right child 11 was stored below
\* it; its node is still there, no longer terminal.
C17_Witness ==
    /\ LastDeleted
    /\ MaskedPrefix(last.key, last.mask) = <<1>>
    /\ DOMAIN last.pre.stored = {<<1>>, <<1, 1>>}
    /\ HasChild(last.pre.nodes, PreNode)
    /\ PreNode \in DOMAIN nodes /\ ~IsTerminal(nodes, PreNode)
    /\ nodes[PreNode].left = NIL /\ nodes[PreNode].right # NIL

---------------------------------------------------------------------------
(* Walk *)

\* The last operation was a Walk with a walker function.
LastWalked == last.op = "Walk" /\ ~last.walkerFn.isNil

\* The calls of the walker function in the last operation.
LastCalls == WalkerCalls(last.events)

\* The terminal nodes of the tree.
Terminals == {n \in DOMAIN nodes : nodes[n].terminal}

\* C18: a Walk that runs to completion on a tree of N stored keys calls the
\* walker function N times: once for each terminal node, with that node's
\* value, and for no other node.
C18_WalkCallsEachTerminalOnce ==
    (LastWalked /\ last.err = "nil")
        => /\ Len(LastCalls) = Cardinality(DOMAIN stored)
           /\ Len(LastCalls) = Cardinality(Terminals)
           /\ {LastCalls[i].node : i \in DOMAIN LastCalls} = Terminals
           /\ root \notin Terminals
           /\ \A i \in DOMAIN LastCalls :
                  LastCalls[i].value = nodes[LastCalls[i].node].value

\* A Walk ran to completion over the prefix 1, which has both children, the
\* prefix 11 and the 16-bit key below non-terminal nodes.
C18_Witness ==
    /\ LastWalked /\ last.err = "nil"
    /\ DOMAIN stored = {<<1>>, <<1, 1>>, DeepPrefix}
    /\ Len(LastCalls) = MaxLive
    /\ Cardinality(DOMAIN nodes) > MaxLive + 1

\* C19: when the walker function returns an error from its k-th call, Walk
\* calls it k times in all and returns that error.
C19_WalkStopsAtError ==
    (LastWalked /\ last.walkerFn.failAt >= 1)
        => IF Cardinality(DOMAIN stored) >= last.walkerFn.failAt
           THEN /\ Len(LastCalls) = last.walkerFn.failAt
                /\ last.err = last.walkerFn.err
           ELSE /\ Len(LastCalls) = Cardinality(DOMAIN stored)
                /\ last.err = "nil"

\* A Walk over three stored keys stopped at the error of the second call,
\* made for a parent popped on the way up.
C19_Witness ==
    /\ LastWalked /\ last.walkerFn.failAt = 2
    /\ DOMAIN stored = {<<1>>, <<1, 0>>, DeepPrefix}
    /\ Len(LastCalls) = 2
    /\ HasChild(nodes, LastCalls[2].node)
    /\ last.err = "E2"

\* C20: a Walk of a tree without stored keys calls the walker function
\* zero times, returns no error and calls neither rlock nor runlock.
C20_EmptyWalkTakesNoLock ==
    (LastWalked /\ DOMAIN stored = {})
        => last.events = <<>> /\ last.err = "nil"

\* A Walk ran on a tree without stored keys whose lock hooks are set.
C20_Witness ==
    /\ LastWalked /\ DOMAIN stored = {} /\ IsEmpty(Tree)
    /\ LockHandlers.rlockFn /\ LockHandlers.runlockFn
    /\ last.events = <<>> /\ last.err = "nil"

---------------------------------------------------------------------------
(* Lock hooks of the sequential calls *)

\* The names of the hooks called in a trace, in order.
HookCalls(events) ==
    [i \in DOMAIN SelectSeq(events, LAMBDA e : e.ev # "walkerFn") |->
        SelectSeq(events, LAMBDA e : e.ev # "walkerFn")[i].ev]

\* The last call passed the checks made before the lock is taken.
LastTookLock ==
    \/ last.op = "Insert" /\ ~InvalidForInsert(last.key, last.mask)
    \/ last.op \in {"Delete", "Search"} /\ Len(last.key) = Len(last.mask)
    \/ LastWalked /\ last.pre.numNodes > 0

\* C22: the hooks of every call are balanced.  An Insert or Delete calls
\* wlock and unlock once each, in this order, or neither; a Search or Walk
\* calls rlock and runlock once each, around every call of the walker
\* function, or neither; the pair is called on every call that passes the
\* checks made before the lock, whatever it returns.
C22_HooksBalanced ==
    /\ last.op \in {"Insert", "Delete"}
           => HookCalls(last.events)
                  = IF LastTookLock THEN <<"wlock", "unlock">> ELSE <<>>
    /\ last.op \in {"Search", "Walk"}
           => /\ HookCalls(last.events)
                     = IF LastTookLock THEN <<"rlock", "runlock">> ELSE <<>>
              /\ LastTookLock
                     => /\ last.events[1].ev = "rlock"
                        /\ last.events[Len(last.events)].ev = "runlock"

\* A Walk that returned the error of the walker function's second call had
\* called rlock before the first call and runlock after the second.
C22_Witness ==
    /\ LastWalked /\ last.err = "E2"
    /\ [i \in DOMAIN last.events |-> last.events[i].ev]
           = <<"rlock", "walkerFn", "walkerFn", "runlock">>

---------------------------------------------------------------------------
(* Concurrent calls *)

\* Every call has returned.
AllDone == \A self \in Goroutines : pc[self] = "Done"

\* C21: every read or write of the tree by a call is made between the
\* call's lock and its unlock: a step of Insert or Delete that reads or
\* writes is made by the writer, a step of Search or Walk that reads by a
\* reader, and never while another goroutine is the writer.  (Walk tests the
\* counter before it takes the read lock: the statement does not hold.)
C21_AccessesInsideLock ==
    (access.reads \/ access.writes)
        => /\ access.op \in {"Insert", "Delete"}
                  => access.writer = access.self
           /\ access.op \in {"Search", "Walk"}
                  => /\ access.self \in access.readers
                     /\ access.writer = 0

\* The heap with each node renamed after the path to it from the root:
\* the children of id are 2 * id and 2 * id + 1.
RECURSIVE CanonFrom(_, _, _)
CanonFrom(nd, n, id) ==
    LET l == nd[n].left
        r == nd[n].right
    IN  (id :> [left     |-> IF l = NIL THEN NIL ELSE 2 * id,
                right    |-> IF r = NIL THEN NIL ELSE 2 * id + 1,
                terminal |-> nd[n].terminal,
                value    |-> nd[n].value])
        @@ (IF l = NIL THEN <<>> ELSE CanonFrom(nd, l, 2 * id))
        @@ (IF r = NIL THEN <<>> ELSE CanonFrom(nd, r, 2 * id + 1))

Canonical(nd) == CanonFrom(nd, root, root)

\* What a call returns, and the tree it leaves, when it runs alone on t.
SeqCall(t, call) ==
    CASE call.op = "Insert" ->
           LET r == Insert(t, call.key, call.mask, call.value)
           IN  [t |-> r.t, res |-> r.res, value |-> zero, err |-> r.err]
      [] call.op = "Delete" -> Delete(t, call.key, call.mask)
      [] call.op = "Search" ->
           LET r == Search(t, call.key, call.mask, call.mType)
           IN  [t |-> t, res |-> r.res, value |-> r.value, err |-> r.err]
      [] call.op = "Walk" ->
           LET r == Walk(t, ConcWalkerFn)
           IN  [t |-> t, res |-> "none", value |-> zero, err |-> r.err]

\* The orders in which the goroutines can take turns.
Orders ==
    {o \in [1..Cardinality(Goroutines) -> Goroutines] :
        \A i, j \in DOMAIN o : o[i] = o[j] => i = j}

\* The calls of the goroutines made one after the other in the order o,
\* from the tree t: the tree afterwards and whether each call returned what
\* the goroutine's call returned.
RECURSIVE Replay(_, _)
Replay(t, o) ==
    IF o = <<>>
    THEN [t |-> t, same |-> TRUE]
    ELSE LET r    == SeqCall(t, frame[Head(o)].call)
             rest == Replay(r.t, Tail(o))
         IN  [t    |-> rest.t,
              same |-> /\ rest.same
                       /\ frame[Head(o)].res = r.res
                       /\ frame[Head(o)].value = r.value
                       /\ frame[Head(o)].err = r.err]

\* Some order of the calls explains what they returned and the final tree.
Linearizable ==
    \E o \in Orders :
        \E r \in {Replay(tree0, o)} :
            /\ r.same
            /\ Canonical(nodes) = Canonical(r.t.nodes)
            /\ numNodes = r.t.numNodes

\* C23: with the hooks of a reader-writer lock, when concurrent Insert,
\* Delete and Search calls have all returned, some sequential order of the
\* calls gives each call the result it returned and gives the final tree.
C23_LockedCallsLinearizable ==
    (/\ AllDone
     /\ \A self \in Goroutines :
            frame[self].call.op \in {"Insert", "Delete", "Search"})
        => Linearizable

\* An Insert of prefix 1 that began while the Delete of prefix 1 was under
\* way, on the empty tree: the Delete found the key, so the Insert comes
\* first in the order.
C23_Witness ==
    /\ AllDone
    /\ handlers = LockHandlers
    /\ tree0 = NewTree
    /\ frame[1].call.op = "Delete" /\ frame[1].res = "Match"
    /\ frame[2].call.op = "Insert" /\ frame[2].res = "Ok"
    /\ frame[2].overlapped
    /\ numNodes = 0

\* The number of terminal nodes reachable from the root.
ReachableCensus ==
    Cardinality({n \in ReachableFrom(nodes, {root}) : nodes[n].terminal})

\* Both goroutines made an Insert, of distinct keys, and both have returned.
TwoInsertsDone ==
    /\ AllDone
    /\ \A self \in Goroutines : frame[self].call.op = "Insert"
    /\ frame[1].call.key # frame[2].call.key

\* A key whose Insert returned Ok is not found.
LostKey ==
    \E self \in Goroutines :
        /\ frame[self].res = "Ok"
        /\ SearchExact(Tree, frame[self].call.key, frame[self].call.mask).res
               # "Match"

\* C24: with no hook set, two Inserts of distinct keys can end with a key
\* lost or with a counter that is not the number of terminal nodes; they
\* end so only when the two calls overlapped.
C24_UnlockedInsertsBreakWhenOverlapped ==
    (TwoInsertsDone /\ (LostKey \/ numNodes # ReachableCensus))
        => \E self \in Goroutines : frame[self].overlapped

\* Two Inserts on the empty tree that both returned Ok: the key of one is
\* lost and the counter, 2, is not the number of terminal nodes.
C24_Witness ==
    /\ TwoInsertsDone
    /\ handlers = NoLockHandlers
    /\ tree0 = NewTree
    /\ \A self \in Goroutines : frame[self].res = "Ok"
    /\ LostKey
    /\ numNodes = 2
    /\ ReachableCensus = 1

---------------------------------------------------------------------------
(* Keys under a mask *)

\* The keys tried in place of the key of an input: the keys of the inputs
\* and keys that differ from them in bits the masks leave out.
OtherKeys ==
    {in[1] : in \in Inputs} \cup {<<129>>, <<224>>, <<32>>, <<128, 255>>}

\* k1 and k2 agree on every bit position where the mask m is 1.
SameUnderMask(k1, k2, m) ==
    /\ Len(k1) = Len(m)
    /\ Len(k2) = Len(m)
    /\ \A i \in DOMAIN BitsOf(m) :
           BitsOf(m)[i] = 1 => BitsOf(k1)[i] = BitsOf(k2)[i]

\* <<K1, K2, M>>: an input (K1, M) and another key K2 that agrees with K1
\* under M.
MaskedPairs ==
    {p \in {<<in[1], k2, in[2]>> : in \in Inputs, k2 \in OtherKeys} :
        p[1] # p[2] /\ SameUnderMask(p[1], p[2], p[3])}

\* C25: for keys K1 and K2 that agree on every bit where the mask M is 1,
\* Insert, SearchExact, SearchPartial and Delete with (K1, M) and with
\* (K2, M) on the same tree return the same result, value and error and
\* leave the same tree.
C25_OnlyMaskedBitsMatter ==
    \A p \in MaskedPairs :
        /\ \A v \in Values :
               Insert(Tree, p[1], p[3], v) = Insert(Tree, p[2], p[3], v)
        /\ SearchExact(Tree, p[1], p[3]) = SearchExact(Tree, p[2], p[3])
        /\ SearchPartial(Tree, p[1], p[3]) = SearchPartial(Tree, p[2], p[3])
        /\ Delete(Tree, p[1], p[3]) = Delete(Tree, p[2], p[3])

\* Prefix 10 was stored with the key 10100000 and is found and deleted with
\* the key 10000000.
C25_Witness ==
    /\ last.op = "Insert" /\ last.res = "Ok"
    /\ last.key = <<160>> /\ last.mask = <<192>>
    /\ <<  <<160>>, <<128>>, <<192>>  >> \in MaskedPairs
    /\ SearchExact(Tree, <<128>>, <<192>>).res = "Match"
    /\ Delete(Tree, <<128>>, <<192>>).res = "Match"

---------------------------------------------------------------------------
(* Frame of Search and Walk *)

\* C26: Search, Exact or Partial, and Walk leave the tree as it was: the
\* nodes, their links, terminal flags and values, and the counter that
\* GetNodesCount returns, whatever the call returned.
C26_SearchAndWalkKeepTree ==
    last.op \in {"Search", "Walk"}
        => /\ nodes = last.pre.nodes
           /\ GetNodesCount(Tree) = GetNodesCount(PreTree)

\* A Walk of a tree of two keys that the walker function stopped with an
\* error at its first call.
C26_Witness ==
    /\ LastWalked /\ last.err = "E1"
    /\ Len(LastCalls) = 1
    /\ numNodes = 2

---------------------------------------------------------------------------
(* StringsTree.Walk *)

\* C27: StringsTree.Walk returns nil when the walk succeeded and the error
\* of the callback when the callback returned one: it returns what Walk of
\* the tree returns for the same callback.  (StringsTree.Walk drops the error
\* of the walk: the statement does not hold.)
C27_StringsWalkReturnsCallbackError ==
    \A callback \in WalkerFns :
        ~callback.isNil
            => StringsWalk(Tree, callback).err = Walk(Tree, callback).err

---------------------------------------------------------------------------
(* Preconditions of find *)

\* The errors that report an invalid key or mask.
InvalidInputErrors == {"ErrInvalidKeyMask", "invalid key length"}

\* An empty key and mask, or a mask whose first bit is 0.
InvalidForFind(key, mask) ==
    /\ Len(key) = Len(mask)
    /\ (Len(key) = 0 \/ ~BitSet(msbByteVal, mask[1]))

\* C28: Search and Delete called with an empty key and mask, or with a mask
\* whose first bit is 0, return Error with an invalid-input error on every
\* tree, the empty tree included.  (On the empty tree find returns
\* ErrKeyNotFound before it looks at its arguments: the statement does not
\* hold.)
C28_FindRejectsInvalidInput ==
    \A in \in Inputs :
        InvalidForFind(in[1], in[2])
            => /\ \A mType \in {"Exact", "Partial"} :
                      /\ Search(Tree, in[1], in[2], mType).res = "Error"
                      /\ Search(Tree, in[1], in[2], mType).err
                             \in InvalidInputErrors
               /\ Delete(Tree, in[1], in[2]).res = "Error"
               /\ Delete(Tree, in[1], in[2]).err \in InvalidInputErrors

---------------------------------------------------------------------------
(* NodeStack *)

\* The nodes pushed and not yet popped, before the last operation.
PendingBefore == stackLast.was

\* C29: NodeStack is a LIFO.  Size is the number of nodes pushed and not yet
\* popped; Pop returns the most recently pushed of them and reduces Size by
\* 1; Peek returns the same node and changes nothing; on an empty stack Pop
\* and Peek return nil and leave it empty; IsEmpty holds exactly when Size
\* is 0.
C29_NodeStackIsLifo ==
    /\ Size(stack) = Len(stackLast.pending)
    /\ StackIsEmpty(stack) <=> Size(stack) = 0
    /\ (stackLast.op \in {"Pop", "Peek"} /\ PendingBefore # <<>>)
           => stackLast.ret = PendingBefore[Len(PendingBefore)]
    /\ (stackLast.op = "Pop" /\ PendingBefore # <<>>)
           => Size(stack) = Size(stackLast.pre) - 1
    /\ stackLast.op = "Peek" => stack = stackLast.pre
    /\ (stackLast.op \in {"Pop", "Peek"} /\ PendingBefore = <<>>)
           => /\ stackLast.ret = NIL
              /\ StackIsEmpty(stack)

\* A Pop, after pushes and pops, of a stack that held two different nodes
\* pushed in the order 1, 2: it returned 2 and left 1.
C29_Witness ==
    /\ stackLast.op = "Pop"
    /\ PendingBefore = <<1, 2>>
    /\ stackLast.ret = 2
    /\ Peek(stack) = 1
    /\ Size(stack) = 1

---------------------------------------------------------------------------
(* Defensive branches *)

\* find returned a node that takes the "should never be hit" branch of
\* Search and Delete: nil, not terminal, or the root.
DefensiveBranch(f) ==
    f.node = NIL \/ ~IsTerminal(nodes, f.node) \/ IsRoot(f.node)

\* find reported a match to Search: no error, and a result the match type
\* accepts.
SearchSawMatch(f, mType) ==
    /\ f.err = "nil"
    /\ mType = "Exact" => f.res = "Match"
    /\ mType = "Partial" => f.res \in {"Match", "PartialMatch"}

\* C30: the defensive branches are never taken.  On every reachable tree
\* and for every input, Insert does not return ErrInsertFailed, and when
\* find reports a match to Search or to Delete the node it returns is not
\* nil, is terminal and is not the root.
C30_DefensiveBranchesUnreachable ==
    \A in \in Inputs :
        /\ \A v \in Values :
               Insert(Tree, in[1], in[2], v).err # "ErrInsertFailed"
        /\ Len(in[1]) = Len(in[2])
               => /\ \A mType \in {"Exact", "Partial"} :
                         \E f \in {find(Tree, in[1], in[2], mType, NoStack)} :
                             SearchSawMatch(f, mType) => ~DefensiveBranch(f)
                  /\ \E f \in {find(Tree, in[1], in[2], "Exact",
                                    SomeStack(NewNodeStack))} :
                         (f.err = "nil" /\ f.res = "Match")
                             => ~DefensiveBranch(f)

\* A tree on which find reports matches of both kinds and Insert finds an
\* existing node: prefix 1 is stored and is a partial match of prefix 10,
\* prefix 11 is stored below it.
C30_Witness ==
    /\ find(Tree, <<128>>, <<192>>, "Partial", NoStack).res = "PartialMatch"
    /\ find(Tree, <<192>>, <<192>>, "Exact", SomeStack(NewNodeStack)).res
           = "Match"
    /\ Insert(Tree, <<128>>, <<128>>, 1).res = "Dup"
    /\ last.op = "Delete" /\ last.res = "Match"

---------------------------------------------------------------------------
(* Shape of the tree *)

\* The paths, as bit strings, from the node n (reached by `path`) to the
\* nodes below it.
RECURSIVE PathsBelow(_, _, _)
PathsBelow(nd, n, path) ==
    (IF nd[n].left = NIL
     THEN {}
     ELSE {Append(path, 0)} \cup PathsBelow(nd, nd[n].left, Append(path, 0)))
    \cup
    (IF nd[n].right = NIL
     THEN {}
     ELSE {Append(path, 1)} \cup PathsBelow(nd, nd[n].right, Append(path, 1)))

\* The node a path leads to from the root.
RECURSIVE NodeAt(_, _, _)
NodeAt(nd, n, path) ==
    IF path = <<>>
    THEN n
    ELSE NodeAt(nd, IF Head(path) = 1 THEN nd[n].right ELSE nd[n].left,
                Tail(path))

\* The non-empty prefixes of a set of bit strings.
PrefixesOf(keys) ==
    UNION {{SubSeq(k, 1, i) : i \in 1..Len(k)} : k \in keys}

\* C31: after any sequence of Insert and Delete calls the non-root nodes of
\* the tree are exactly the non-empty bit prefixes of the stored keys, and
\* the terminal nodes exactly the stored keys: the shape is determined by
\* the set of stored keys.
C31_ShapeIsPrefixesOfStoredKeys ==
    /\ PathsBelow(nodes, root, <<>>) = PrefixesOf(DOMAIN stored)
    /\ \A path \in PathsBelow(nodes, root, <<>>) :
           IsTerminal(nodes, NodeAt(nodes, root, path))
               <=> path \in DOMAIN stored
    /\ DOMAIN nodes = ReachableFrom(nodes, {root})

\* A Delete has just pruned a chain of more than one node next to two keys
\* that stay stored.
C31_Witness ==
    /\ LastDeleted
    /\ Cardinality(DOMAIN stored) = 2
    /\ Cardinality(DOMAIN nodes) + 1 < Cardinality(DOMAIN last.pre.nodes)

---------------------------------------------------------------------------
(* Insert followed by Delete *)

\* The nodes of a heap with their links and terminal flags.
Shape(nd) ==
    [n \in DOMAIN nd |->
        [left |-> nd[n].left, right |-> nd[n].right,
         terminal |-> nd[n].terminal]]

\* Delete(key, mask) of the tree that Insert(key, mask, value) leaves.
InsertThenDelete(t, key, mask, value) ==
    Delete(Insert(t, key, mask, value).t, key, mask)

\* C32: for a (key, mask) that is not stored, Insert followed by Delete of
\* the same (key, mask) gives back the nodes, links, terminal flags and
\* counter the tree had: the nodes the Insert created are gone and no other
\* node is.
C32_InsertThenDeleteRestores ==
    \A in \in Inputs, v \in Values :
        SearchExact(Tree, in[1], in[2]).res # "Match"
            => \E d \in {InsertThenDelete(Tree, in[1], in[2], v)} :
                   /\ Shape(d.t.nodes) = Shape(nodes)
                   /\ d.t.numNodes = numNodes

\* The last call was a Delete that undid an Insert: the tree before it is
\* the tree an Insert of the deleted key gives now, four nodes or more
\* larger, and other keys are stored.
C32_Witness ==
    /\ LastDeleted
    /\ numNodes >= 1
    /\ SearchExact(Tree, last.key, last.mask).res # "Match"
    /\ \E v \in Values :
           Insert(Tree, last.key, last.mask, v).t = PreTree
    /\ Cardinality(DOMAIN last.pre.nodes) >= Cardinality(DOMAIN nodes) + 4

---------------------------------------------------------------------------
(* Nodes created by Insert *)

\* The depth of the deepest node on `path` below the node n (n is at
\* `depth`).
RECURSIVE DeepestOnPath(_, _, _, _)
DeepestOnPath(nd, n, path, depth) ==
    IF path = <<>>
    THEN depth
    ELSE LET child == IF Head(path) = 1 THEN nd[n].right ELSE nd[n].left
         IN  IF child = NIL
             THEN depth
             ELSE DeepestOnPath(nd, child, Tail(path), depth + 1)

\* The last call was an Insert that returned Ok and created nodes.
LastCreated ==
    /\ last.op = "Insert" /\ last.res = "Ok"
    /\ DOMAIN nodes # DOMAIN last.pre.nodes

\* The nodes the last call created.
NewNodes == DOMAIN nodes \ DOMAIN last.pre.nodes

\* The prefix of the last call and the depth of the deepest node on its
\* path before the call.
LastPrefix == MaskedPrefix(last.key, last.mask)
LastDepth == DeepestOnPath(last.pre.nodes, root, LastPrefix, 0)

\* C33: an Insert that cannot follow existing nodes to the end of the mask
\* creates one node per remaining masked bit, the nodes on the key's path
\* below the deepest existing one, each the only child of the one before;
\* only the last is terminal, with the value; every node that existed is
\* kept with its flag, value and links, but for the nil link of the deepest
\* existing node, where the chain hangs.
C33_InsertCreatesOneChain ==
    LastCreated
        => /\ Cardinality(NewNodes) = Len(LastPrefix) - LastDepth
           /\ NewNodes = {NodeAt(nodes, root, SubSeq(LastPrefix, 1, i)) :
                              i \in (LastDepth + 1)..Len(LastPrefix)}
           /\ \A i \in (LastDepth + 1)..Len(LastPrefix) :
                  \E n \in {NodeAt(nodes, root, SubSeq(LastPrefix, 1, i))} :
                      IF i = Len(LastPrefix)
                      THEN nodes[n] = [left |-> NIL, right |-> NIL,
                                       terminal |-> TRUE,
                                       value |-> last.value]
                      ELSE /\ ~nodes[n].terminal
                           /\ (nodes[n].left = NIL) # (nodes[n].right = NIL)
           /\ DOMAIN last.pre.nodes \subseteq DOMAIN nodes
           /\ \A n \in DOMAIN last.pre.nodes :
                  \/ nodes[n] = last.pre.nodes[n]
                  \/ /\ n = NodeAt(nodes, root, SubSeq(LastPrefix, 1, LastDepth))
                     /\ \E c \in NewNodes :
                            IF LastPrefix[LastDepth + 1] = 1
                            THEN /\ last.pre.nodes[n].right = NIL
                                 /\ nodes[n] = [last.pre.nodes[n]
                                                    EXCEPT !.right = c]
                            ELSE /\ last.pre.nodes[n].left = NIL
                                 /\ nodes[n] = [last.pre.nodes[n]
                                                    EXCEPT !.left = c]

\* The 16-bit prefix was inserted below an existing node of depth 2: a
\* chain of 14 nodes was created.
C33_Witness ==
    /\ LastCreated
    /\ Len(LastPrefix) = 16
    /\ LastDepth = 2
    /\ Cardinality(NewNodes) = 14

---------------------------------------------------------------------------
(* Non-contiguous masks *)

\* The byte of eight bits, most significant first.
ByteOf(bits) ==
    bits[1] * 128 + bits[2] * 64 + bits[3] * 32 + bits[4] * 16
        + bits[5] * 8 + bits[6] * 4 + bits[7] * 2 + bits[8]

\* The bytes of a bit string of whole bytes.
RECURSIVE BytesOf(_)
BytesOf(bits) ==
    IF bits = <<>>
    THEN <<>>
    ELSE <<ByteOf(SubSeq(bits, 1, 8))>> \o BytesOf(SubSeq(bits, 9, Len(bits)))

\* The mask cut down to its leading run of 1 bits: every bit after the
\* first 0 bit is cleared.
TruncatedMask(mask) ==
    BytesOf([i \in DOMAIN BitsOf(mask) |->
                IF i <= LeadingOnes(BitsOf(mask)) THEN 1 ELSE 0])

\* Inputs with masks that have 1 bits after a 0 bit, next to the inputs of
\* the calls.
MaskInputs ==
    Inputs \cup { <<  <<128>>,      <<160>>      >>,   \* mask 1010 0000
                  <<  <<192>>,      <<193>>      >>,   \* mask 1100 0001
                  <<  <<128, 128>>, <<128, 255>> >>,   \* mask 10000000 11111111
                  <<  <<128, 128>>, <<255, 1>>   >> }  \* mask 11111111 00000001

\* <<key, mask, the mask cut down>> for the masks that the cut changes.
MaskCases ==
    {c \in {<<in[1], in[2], TruncatedMask(in[2])>> : in \in MaskInputs} :
        c[2] # c[3]}

\* C34: the mask bits after the first 0 bit are ignored.  Insert, Search
\* (Exact and Partial) and Delete with a mask return the result, value and
\* error and leave the tree that they return and leave with the mask cut
\* down to its leading run of 1 bits.
C34_MaskBitsAfterFirstZeroIgnored ==
    \A c \in MaskCases :
        /\ \A v \in Values :
               Insert(Tree, c[1], c[2], v) = Insert(Tree, c[1], c[3], v)
        /\ \A mType \in {"Exact", "Partial"} :
               Search(Tree, c[1], c[2], mType) = Search(Tree, c[1], c[3], mType)
        /\ Delete(Tree, c[1], c[2]) = Delete(Tree, c[1], c[3])

\* An Insert with the mask 1010 0000 stored the prefix 1: it is found and
\* deleted with that mask and with the mask 1000 0000, next to the stored
\* prefix 10.
C34_Witness ==
    /\ last.op = "Insert" /\ last.res = "Ok"
    /\ last.key = <<192>> /\ last.mask = <<160>>
    /\ <<last.key, last.mask, <<128>>  >> \in MaskCases
    /\ SearchExact(Tree, <<128>>, <<192>>).res = "Match"
    /\ SearchExact(Tree, <<192>>, <<160>>).res = "Match"
    /\ Delete(Tree, <<192>>, <<128>>).res = "Match"

---------------------------------------------------------------------------
(* Order of a Walk *)

\* The nodes of the subtree of n; none if n is nil.
Subtree(nd, n) == IF n = NIL THEN {} ELSE ReachableFrom(nd, {n})

\* The nodes strictly below n.
Below(nd, n) == Subtree(nd, nd[n].left) \cup Subtree(nd, nd[n].right)

\* C35: Walk reports in post-order, left subtree first.  For every node, a
\* call of the walker function for a node of its left subtree comes before
\* every call for a node of its right subtree, and the call for a stored
\* prefix comes after every call for a node below it.
C35_WalkIsPostOrderLeftFirst ==
    LastWalked
        => \A i, j \in DOMAIN LastCalls :
               /\ (\E n \in DOMAIN nodes :
                       /\ LastCalls[i].node \in Subtree(nodes, nodes[n].left)
                       /\ LastCalls[j].node \in Subtree(nodes, nodes[n].right))
                      => i < j
               /\ LastCalls[i].node \in Below(nodes, LastCalls[j].node)
                      => i < j

\* A completed Walk of the prefixes 1, 10 and 11: 10 on the left, then 11
\* on the right, then their parent 1.
C35_Witness ==
    /\ LastWalked /\ last.err = "nil"
    /\ DOMAIN stored = {<<1>>, <<1, 0>>, <<1, 1>>}
    /\ [i \in DOMAIN LastCalls |-> LastCalls[i].node]
           = <<NodeAt(nodes, root, <<1, 0>>), NodeAt(nodes, root, <<1, 1>>),
               NodeAt(nodes, root, <<1>>)>>

---------------------------------------------------------------------------
(* Termination *)

\* The goroutine holds the lock of its call.
HoldsLock(self) == rwlock.writer = self \/ self \in rwlock.readers

\* No node occurs twice in a sequence.
NoRepeat(seq) == \A i, j \in DOMAIN seq : seq[i] = seq[j] => i = j

\* C36: every call returns once it has its lock: a goroutine that holds the
\* lock reaches its return after finitely many steps, on every tree and
\* whatever the other goroutine does; and Walk pushes no node twice.
C36_CallsTerminate ==
    /\ \A self \in Goroutines : HoldsLock(self) ~> (pc[self] = "Done")
    /\ [](\A self \in Goroutines : NoRepeat(frame[self].pushed))

\* A Walk of the prefixes 0, 10 and 11 has returned after it pushed the five
\* nodes of the tree, the root first, and called the walker function three
\* times, while the other goroutine deleted the 16-bit prefix, not found.
C36_Witness ==
    /\ AllDone
    /\ frame[1].call.op = "Walk"
    /\ Len(frame[1].pushed) = 5
    /\ Len(WalkerCalls(frame[1].events)) = 3
    /\ frame[2].call.op = "Delete" /\ frame[2].res = "Error"

---------------------------------------------------------------------------
(* The walker function and the read lock *)

\* C37: the walker function is called while the read lock of the Walk is
\* held: when a Walk is about to call it, the read-lock hook has been
\* called for this Walk, the read-unlock hook has not, and no goroutine is
\* the writer.
C37_WalkerCalledUnderReadLock ==
    \A self \in Goroutines :
        pc[self] = "WalkCall"
            => /\ handlers.rlockFn /\ handlers.runlockFn
               /\ self \in rwlock.readers
               /\ rwlock.writer = 0

\* A Walk is about to make its third call of the walker function while an
\* Insert waits for the write lock.
C37_Witness ==
    /\ pc[1] = "WalkCall"
    /\ Len(WalkerCalls(frame[1].events)) = 2
    /\ 1 \in rwlock.readers
    /\ pc[2] = "wlock" /\ frame[2].call.op = "Insert"

---------------------------------------------------------------------------
(* The stacks of Delete and Walk *)

\* The children of a node.
Children(nd, n) == {nd[n].left, nd[n].right} \ {NIL}

\* The stack holds a path that starts at the root: each node is a child of
\* the node below it.
IsRootPath(nd, ns) ==
    /\ ns.nodes # <<>> => ns.nodes[1] = root
    /\ \A i \in 1..(Len(ns.nodes) - 1) :
           ns.nodes[i + 1] \in Children(nd, ns.nodes[i])

\* C38: in the pruning loop of Delete the ancestor stack holds the path
\* from the root to the parent of the node to unlink, so the node popped is
\* the parent of that node and the link about to be cleared is the link
\* to it.
C38_PrunePopsTheParent ==
    \A self \in Goroutines :
        /\ pc[self] = "DeletePrune"
               => /\ IsRootPath(nodes, frame[self].nodeAncestors.ns)
                  /\ ~StackIsEmpty(frame[self].nodeAncestors.ns)
                         => frame[self].node
                                \in Children(nodes,
                                             Peek(frame[self].nodeAncestors.ns))
        /\ pc[self] = "DeleteCut"
               => frame[self].node
                      = IF frame[self].side = "right"
                        THEN nodes[frame[self].parent].right
                        ELSE nodes[frame[self].parent].left

\* The Delete of the 16-bit prefix has unlinked six nodes of the chain: ten
\* ancestors are left on the stack.
C38_Witness ==
    /\ pc[1] = "DeletePrune"
    /\ frame[1].call.key = <<128, 128>>
    /\ Size(frame[1].nodeAncestors.ns) = 10
    /\ IsLeaf(nodes, frame[1].node)
    /\ ~IsTerminal(nodes, frame[1].node)

\* The number of 1 bits of a mask.
OnesOf(mask) == Cardinality({i \in DOMAIN BitsOf(mask) : BitsOf(mask)[i] = 1})

\* The depth of the deepest node below n (0 for a leaf).
RECURSIVE HeightFrom(_, _)
HeightFrom(nd, n) ==
    LET l == IF nd[n].left = NIL THEN 0 ELSE 1 + HeightFrom(nd, nd[n].left)
        r == IF nd[n].right = NIL THEN 0 ELSE 1 + HeightFrom(nd, nd[n].right)
    IN  IF l >= r THEN l ELSE r

\* C39: the stack of a call is bounded by the depth of the tree.  The
\* ancestor stack of a Delete never holds more nodes than its mask has 1
\* bits; the stack of a Walk is always a path from the root, each node a
\* child of the one below it, of at most the depth of the tree plus 1
\* nodes.
C39_StacksBoundedByDepth ==
    \A self \in Goroutines :
        /\ frame[self].call.op = "Delete"
               => Size(frame[self].nodeAncestors.ns)
                      <= OnesOf(frame[self].call.mask)
        /\ frame[self].call.op = "Walk"
               => /\ IsRootPath(nodes, frame[self].treeNodeStack)
                  /\ Size(frame[self].treeNodeStack)
                         <= HeightFrom(nodes, root) + 1

\* After a Walk that pushed the 17 nodes of the chain to the 16-bit prefix,
\* the Delete of that prefix has the 16 ancestors of its node on the stack,
\* as many as the mask has 1 bits.
C39_Witness ==
    /\ pc[1] = "DeleteFound"
    /\ Size(frame[1].nodeAncestors.ns) = 16
    /\ OnesOf(frame[1].call.mask) = 16
    /\ frame[2].call.op = "Walk" /\ pc[2] = "Done"
    /\ Len(frame[2].pushed) = 17

=============================================================================
